---- MODULE Spec2Model ----
(***************************************************************************)
(* List view model of the calendar plugin: the list-item merger            *)
(* (buildListItems) and the grouping engine (buildListGroups) of           *)
(* src/src/ui/listViewModel.ts, with the moment operations they call.      *)
(*                                                                         *)
(* Epochs are kept in whole days since 1970-01-01 (moment's valueOf() is   *)
(* that number times 86400000, which does not fit TLC's integers); every   *)
(* use of an epoch in the source compares two epochs or takes their        *)
(* maximum, which the scaling preserves.                                   *)
(*                                                                         *)
(* Two parts of src/src/ui/Calendar.svelte follow: computeList with its    *)
(* run token (SpecCompute), and the created-on-day index with its builds,  *)
(* its queue of pending operations and the vault handlers (SpecIndex);     *)
(* applyCreatedOnDayIndexOp is also called on its own (SpecApply).  The    *)
(* persisted view state of src/src/main.ts and its sanitisation make the   *)
(* next part (SpecViewState).  SpecComputeFair and SpecIndexFair add to    *)
(* the first two the fairness of the awaited reads and of the resumption   *)
(* of a build after its yield.  The debounce timers of Calendar.svelte     *)
(* and src/src/view.ts (SpecTimers) and the metrics cache of               *)
(* src/src/ui/noteMetrics.ts (SpecMetrics) make the last two parts.        *)
(***************************************************************************)
EXTENDS Integers, Sequences, FiniteSets, TLC

VARIABLES
    pc,                   \* "merge" | "merged" | "group" | "grouped" |
                          \* "path" | "pathed" | "compute" | "index" |
                          \* "apply" | "applied" | "plugin" | "loaded" |
                          \* "timers" | "metrics"
    dailyNoteCandidates,  \* params.dailyNoteCandidates
    createdOnDayIndex,    \* params.createdOnDayIndex
    includeCreatedDays,   \* params.includeCreatedDays
    sortOrder,            \* the sortOrder argument of either function
    locale,               \* moment's current locale
    preset,               \* the preset argument of buildListGroups
    items,                \* result of buildListItems / input of buildListGroups
    groups,               \* result of buildListGroups
    today,                \* the date argument of getListGroupIdPathForDate
    idPath,               \* result of getListGroupIdPathForDate
    dailyNotes,           \* the files of the $dailyNotes store
    listViewMinWords,     \* $settings.listViewMinWords
    listComputeNonce,     \* Calendar.svelte: token of the latest computeList run
    listLoading,
    listError,
    listGroups,
    groupOpenState,       \* group id -> open
    dayOpenState,         \* dateUID -> open
    dayChildOpenState,    \* dateUID -> [files: open]
    runs,                 \* the computeList runs started so far, by nonce
    toggles,              \* number of toggle events of the list so far
    vault,                \* the files of the vault
    showList,
    prevListViewIncludeCreatedDays,
    createdOnDayIndexLoading,
    createdOnDayIndexError,
    createdOnDayIndexBuildNonce,
    createdOnDayIndexBuiltOnce,
    createdOnDayIndexPendingOps,
    builds,               \* the index builds started so far, in order
    events,               \* number of vault notifications delivered so far
    lastEvent,            \* kind of the latest vault notification
    opArg,                \* the op argument of applyCreatedOnDayIndexOp
    nextIndex,            \* result of applyCreatedOnDayIndexOp
    viewState,            \* main.ts: this.data.viewState
    now,                  \* the clock of window.setTimeout, in ms
    timeouts,             \* the timeouts pending in the window
    lastTimerId,          \* the handle window.setTimeout returned last
    listComputeTimer,     \* Calendar.svelte: handle of the recompute timer
    listRefreshTimer,     \* view.ts: handle of the list refresh timer
    computeCalls,         \* the calls of computeList so far: by whom
    lastRequest,          \* the latest call of scheduleListRecompute
    fileMtime,            \* noteMetrics.ts: file.stat.mtime of every note
    cache,                \* the Map cache, oldest insertion first
    inFlight,             \* the Map inFlight
    promises,             \* the computations started so far, in order
    lastCall,             \* the latest call of getNoteMetrics
    recency               \* the keys of cache, least recently used first

computeVars == <<dailyNotes, listViewMinWords, listComputeNonce, listLoading,
                 listError, listGroups, groupOpenState, dayOpenState,
                 dayChildOpenState, runs, toggles>>

indexVars == <<vault, showList, prevListViewIncludeCreatedDays,
               createdOnDayIndexLoading, createdOnDayIndexError,
               createdOnDayIndexBuildNonce, createdOnDayIndexBuiltOnce,
               createdOnDayIndexPendingOps, builds, events, lastEvent>>

\* The variables of the calls of listViewModel.ts
callVars == <<dailyNoteCandidates, sortOrder, locale, preset, items, groups,
              today, idPath>>

\* The variables of a call of applyCreatedOnDayIndexOp on its own, and of the
\* plugin
\* The variables of the timers that debounce the recomputation of the list
timerVars == <<now, timeouts, lastTimerId, listComputeTimer, listRefreshTimer,
               computeCalls, lastRequest>>

\* The variables of the metrics cache of noteMetrics.ts
metricsVars == <<fileMtime, cache, inFlight, promises, lastCall, recency>>

otherVars == <<opArg, nextIndex, viewState, timerVars, metricsVars>>

vars == <<pc, dailyNoteCandidates, createdOnDayIndex, includeCreatedDays,
          sortOrder, locale, preset, items, groups, today, idPath, computeVars,
          indexVars, otherVars>>

----------------------------------------------------------------------------
(* Bounds *)

MaxCands == 2     \* longest dailyNoteCandidates list
MaxInputs == 3    \* most candidates and index entries of one buildListItems call
MaxMtime == 1     \* candidate mtimes range over 0..MaxMtime
MaxItems == 3     \* longest items list handed to buildListGroups directly
MaxRuns == 2      \* most computeList runs started in one behaviour
MaxEvents == 2    \* most vault notifications in one behaviour
MaxToggles == 2   \* most toggle events of the list in one behaviour
MaxNonce == 3     \* greatest index build token
MaxFairEvents == 1   \* most vault notifications where the yields are fair
MaxBlocks == 2    \* most runs of like entries in a map read from data.json
MaxClock == 1200  \* the clock of the timers stops at this many ms
MaxTimers == 3    \* most timeouts set in one behaviour
MaxCalls == 2     \* most calls of computeList recorded in one behaviour
MaxStamp == 2     \* greatest mtime of a note of the metrics cache
MaxReads == 2     \* most computations of metrics started in one behaviour

----------------------------------------------------------------------------
(* Generic helpers *)

Max(a, b) == IF a >= b THEN a ELSE b

Range(s) == {s[i] : i \in 1..Len(s)}

\* Array.prototype.join("/")
RECURSIVE Join(_)
Join(parts) ==
    IF parts = <<>> THEN ""
    ELSE IF Len(parts) = 1 THEN parts[1]
    ELSE Join(SubSeq(parts, 1, Len(parts) - 1)) \o "/" \o parts[Len(parts)]

----------------------------------------------------------------------------
(* Moment: dates are [y, m, d] with m in 1..12, read in UTC as the test     *)
(* stub does.                                                               *)

\* String(n).padStart(2, "0")
pad2(n) == IF n < 10 THEN "0" \o ToString(n) ELSE ToString(n)

\* Date.UTC(y, m - 1, d) in days since 1970-01-01
DaysFromCivil(y, m, d) ==
    LET yy == IF m <= 2 THEN y - 1 ELSE y
        era == yy \div 400
        yoe == yy - era * 400
        mp == (m + 9) % 12
        doy == (153 * mp + 2) \div 5 + d - 1
        doe == yoe * 365 + yoe \div 4 - yoe \div 100 + doy
    IN era * 146097 + doe - 719468

\* date.valueOf(), in days
valueOf(date) == DaysFromCivil(date.y, date.m, date.d)

\* date.year()
year(date) == date.y

\* date.month(): zero-based
month(date) == date.m - 1

\* date.quarter()
quarter(date) == (month(date) \div 3) + 1

\* date.format("YYYY-MM-DD")
formatYMD(date) == ToString(date.y) \o "-" \o pad2(date.m) \o "-" \o pad2(date.d)

\* Thursday of the ISO week of day number n: (getUTCDay() + 6) % 7 is the
\* weekday counted from Monday, and day 0 was a Thursday.
IsoThursday(n) == n - ((n + 3) % 7) + 3

\* getUTCFullYear() of day number n, for n within a year of year y
YearOfDay(n, y) ==
    IF n < DaysFromCivil(y, 1, 1) THEN y - 1
    ELSE IF n >= DaysFromCivil(y + 1, 1, 1) THEN y + 1
    ELSE y

\* date.isoWeekYear()
isoWeekYear(date) == YearOfDay(IsoThursday(valueOf(date)), date.y)

\* date.isoWeek()
isoWeek(date) ==
    LET thu == IsoThursday(valueOf(date))
        firstThursday == IsoThursday(DaysFromCivil(isoWeekYear(date), 1, 4))
    IN 1 + ((thu - firstThursday) \div 7)

MonthNames ==
    [en |-> <<"January", "February", "March", "April", "May", "June", "July",
              "August", "September", "October", "November", "December">>,
     fr |-> <<"janvier", "fevrier", "mars", "avril", "mai", "juin", "juillet",
              "aout", "septembre", "octobre", "novembre", "decembre">>]

\* date.format("MMMM") under locale loc
formatMMMM(date, loc) == MonthNames[loc][date.m]

Locales == {"en", "fr"}

\* The calendar days of the model.
Dates ==
    {[y |-> 2024, m |-> 12, d |-> 31], [y |-> 2025, m |-> 1, d |-> 1],
     [y |-> 2025, m |-> 11, d |-> 30], [y |-> 2025, m |-> 12, d |-> 13],
     [y |-> 2025, m |-> 12, d |-> 14]}

\* The result of parsing a string that is no calendar day: isValid() is false.
InvalidDate == [y |-> 0, m |-> 0, d |-> 0]

isValid(date) == date # InvalidDate

\* parseDateStr: moment(dateStr, "YYYY-MM-DD", true)
parseDateStr(dateStr) ==
    IF \E dt \in Dates : formatYMD(dt) = dateStr
    THEN CHOOSE dt \in Dates : formatYMD(dt) = dateStr
    ELSE InvalidDate

\* getDayDateUID: getDateUID(date, "day")
getDayDateUID(date) == "day-" \o formatYMD(date)

----------------------------------------------------------------------------
(* Values of listViewModel.ts                                               *)

\* A TFile, known by its path; the file of an item without a daily note.
TFile(path) == [path |-> path]
NoFile == [undefined |-> TRUE]

\* A null or undefined createdOnDayIndex; a missing bucket.
NullIndex == [null |-> TRUE]
NullBucket == [null |-> TRUE]

\* A Record<string, CreatedOnDayBucket> is the sequence of its entries in
\* insertion order, which is the order of Object.entries.
Index(entries) == [entries |-> entries]

\* createdOnDayIndex[dateStr] ?? null
Lookup(index, dateStr) ==
    LET hits == {i \in 1..Len(index.entries) : index.entries[i].key = dateStr}
    IN IF hits = {} THEN NullBucket
       ELSE index.entries[CHOOSE i \in hits : TRUE].bucket

normalizeListViewSortOrder(so) ==
    CASE so = "asc" -> "asc"
      [] so = "desc" -> "desc"
      [] OTHER -> "desc"

\* Variant: the bucket is looked up whether the feature is on or off.
getBucketAlways(index, include, dateStr) ==
    IF index = NullIndex THEN NullBucket
    ELSE Lookup(index, dateStr)

\* getBucket: the bucket of a day, none when the feature is off or there is
\* no index
getBucket(index, include, dateStr) ==
    IF ~include \/ index = NullIndex THEN NullBucket
    ELSE Lookup(index, dateStr)

\* Variant: the daily note's own file is not subtracted.
countCreatedNotesNoExclusion(bucket, excludePath) ==
    LET notes == IF bucket = NullBucket THEN <<>> ELSE bucket.notes
    IN Len(notes)

countCreatedNotesExcluding(bucket, excludePath) ==
    LET notes == IF bucket = NullBucket THEN <<>> ELSE bucket.notes
        matches == {i \in 1..Len(notes) : notes[i].path = excludePath}
    IN IF Len(notes) = 0 THEN 0
       ELSE IF excludePath = "" THEN Len(notes)
       ELSE Max(0, IF matches # {} THEN Len(notes) - 1 ELSE Len(notes))

countCreatedFiles(bucket) ==
    IF bucket = NullBucket THEN 0 ELSE Len(bucket.files)

\* getCreatedNotesForItem of Calendar.svelte, the notes listed under a day
\* row; `include` is the listViewIncludeCreatedDays setting.
getCreatedNotesForItem(index, include, item) ==
    IF ~include THEN <<>>
    ELSE LET bucket == Lookup(index, item.dateStr)
             notes == bucket.notes
             \* notes.filter((f) => f.path !== item.filePath)
             F[i \in 0..Len(notes)] ==
                IF i = 0 THEN <<>>
                ELSE IF notes[i].path # item.filePath
                     THEN Append(F[i - 1], notes[i])
                ELSE F[i - 1]
         IN IF bucket = NullBucket THEN <<>>
            ELSE IF Len(notes) = 0 THEN <<>>
            ELSE F[Len(notes)]

\* Position of the entry for dateStr in a Map kept as a sequence of
\* candidates in insertion order; 0 when the Map has no such key.
MapIndex(map, dateStr) ==
    LET hits == {i \in 1..Len(map) : map[i].dateStr = dateStr}
    IN IF hits = {} THEN 0 ELSE CHOOSE i \in hits : TRUE

\* Variant: the first candidate of a day is kept, whatever its mtime.
ByDateKeepFirst(cands) ==
    LET F[i \in 0..Len(cands)] ==
            IF i = 0 THEN <<>>
            ELSE IF MapIndex(F[i - 1], cands[i].dateStr) = 0
                 THEN Append(F[i - 1], cands[i])
            ELSE F[i - 1]
    IN F[Len(cands)]

\* byDate after the loop over the candidates: Map.set on a present key
\* replaces the value in place.
ByDate(cands) ==
    LET F[i \in 0..Len(cands)] ==
            IF i = 0 THEN <<>>
            ELSE LET candidate == cands[i]
                     k == MapIndex(F[i - 1], candidate.dateStr)
                 IN IF k = 0 THEN Append(F[i - 1], candidate)
                    ELSE IF candidate.mtime > F[i - 1][k].mtime
                         THEN [F[i - 1] EXCEPT ![k] = candidate]
                    ELSE F[i - 1]
    IN F[Len(cands)]

\* Variant: includedDates is an array, pushed to without a membership test.
SetAddAlways(set, e) == Append(set, e)

\* Set.add on a Set kept as a sequence in insertion order
SetAdd(set, e) == IF e \in Range(set) THEN set ELSE Append(set, e)

\* Variant: days with created items are not added.
IncludedDatesQualifyingOnly(byDate, index, include) ==
    LET Q[i \in 0..Len(byDate)] ==
            IF i = 0 THEN <<>>
            ELSE IF byDate[i].qualifies THEN SetAdd(Q[i - 1], byDate[i].dateStr)
            ELSE Q[i - 1]
    IN Q[Len(byDate)]

\* Variant: every retained candidate is added, qualifying or not.
IncludedDatesAnyCandidate(byDate, index, include) ==
    LET Q[i \in 0..Len(byDate)] ==
            IF i = 0 THEN <<>> ELSE SetAdd(Q[i - 1], byDate[i].dateStr)
        entries == IF include /\ index # NullIndex THEN index.entries ELSE <<>>
        C[i \in 0..Len(entries)] ==
            IF i = 0 THEN Q[Len(byDate)]
            ELSE LET bucket == entries[i].bucket
                     hasItems == Len(bucket.notes) > 0 \/ Len(bucket.files) > 0
                 IN IF hasItems THEN SetAdd(C[i - 1], entries[i].key)
                    ELSE C[i - 1]
    IN C[Len(entries)]

\* includedDates: the qualifying retained candidates, then the index entries
\* that have items.
IncludedDates(byDate, index, include) ==
    LET Q[i \in 0..Len(byDate)] ==
            IF i = 0 THEN <<>>
            ELSE IF byDate[i].qualifies THEN SetAdd(Q[i - 1], byDate[i].dateStr)
            ELSE Q[i - 1]
        entries == IF include /\ index # NullIndex THEN index.entries ELSE <<>>
        C[i \in 0..Len(entries)] ==
            IF i = 0 THEN Q[Len(byDate)]
            ELSE LET bucket == entries[i].bucket
                     hasItems == Len(bucket.notes) > 0 \/ Len(bucket.files) > 0
                 IN IF hasItems THEN SetAdd(C[i - 1], entries[i].key)
                    ELSE C[i - 1]
    IN C[Len(entries)]

\* Variant: a candidate that does not qualify is shown as a placeholder.
CandidateItemUnlessDisqualified(candidate, index, include) ==
    LET bucket == getBucket(index, include, candidate.dateStr)
        q == candidate.qualifies
    IN [date |-> candidate.date,
        dateUID |-> candidate.dateUID,
        dateStr |-> candidate.dateStr,
        epoch |-> candidate.epoch,
        year |-> candidate.year,
        file |-> IF q THEN candidate.file ELSE NoFile,
        filePath |-> IF q THEN candidate.filePath ELSE "",
        mtime |-> IF q THEN candidate.mtime ELSE 0,
        dailyNoteExists |-> q,
        createdNotesCount |->
            countCreatedNotesExcluding(bucket,
                                       IF q THEN candidate.filePath ELSE ""),
        createdFilesCount |-> countCreatedFiles(bucket)]

\* The item pushed for an included day that has a retained candidate
CandidateItem(candidate, index, include) ==
    LET bucket == getBucket(index, include, candidate.dateStr)
    IN [date |-> candidate.date,
        dateUID |-> candidate.dateUID,
        dateStr |-> candidate.dateStr,
        epoch |-> candidate.epoch,
        year |-> candidate.year,
        file |-> candidate.file,
        filePath |-> candidate.filePath,
        mtime |-> candidate.mtime,
        dailyNoteExists |-> TRUE,
        createdNotesCount |->
            countCreatedNotesExcluding(bucket, candidate.filePath),
        createdFilesCount |-> countCreatedFiles(bucket)]

\* Variant: the placeholder borrows the path of the day's first created note.
PlaceholderItemWithPath(dateStr, date, index, include) ==
    LET bucket == getBucket(index, include, dateStr)
        borrowed == IF bucket # NullBucket /\ Len(bucket.notes) > 0
                    THEN bucket.notes[1].path ELSE ""
    IN [date |-> date,
        dateUID |-> getDayDateUID(date),
        dateStr |-> dateStr,
        epoch |-> valueOf(date),
        year |-> year(date),
        file |-> NoFile,
        filePath |-> borrowed,
        mtime |-> 0,
        dailyNoteExists |-> FALSE,
        createdNotesCount |-> countCreatedNotesExcluding(bucket, borrowed),
        createdFilesCount |-> countCreatedFiles(bucket)]

\* The placeholder pushed for a created-only day
PlaceholderItem(dateStr, date, index, include) ==
    LET bucket == getBucket(index, include, dateStr)
    IN [date |-> date,
        dateUID |-> getDayDateUID(date),
        dateStr |-> dateStr,
        epoch |-> valueOf(date),
        year |-> year(date),
        file |-> NoFile,
        filePath |-> "",
        mtime |-> 0,
        dailyNoteExists |-> FALSE,
        createdNotesCount |-> countCreatedNotesExcluding(bucket, ""),
        createdFilesCount |-> countCreatedFiles(bucket)]

\* Variant: the sort order is ignored, newest first.
compareItemByEpochDescOnly(so, a, b) == b.epoch - a.epoch

\* The comparator of both sorts of items
compareItemByEpoch(so, a, b) ==
    IF so = "asc" THEN a.epoch - b.epoch ELSE b.epoch - a.epoch

\* items.sort(compareItemByEpoch). Array.prototype.sort is stable: an element
\* is placed in front of the first earlier element that the comparator
\* orders strictly after it (result < 0).
InsertItemSorted(sorted, e, so) ==
    LET before == {k \in 1..Len(sorted) : compareItemByEpoch(so, e, sorted[k]) < 0}
        pos == IF before = {} THEN Len(sorted) + 1
               ELSE CHOOSE k \in before : \A j \in before : k <= j
    IN SubSeq(sorted, 1, pos - 1) \o <<e>> \o SubSeq(sorted, pos, Len(sorted))

SortItems(s, so) ==
    LET F[i \in 0..Len(s)] ==
            IF i = 0 THEN <<>> ELSE InsertItemSorted(F[i - 1], s[i], so)
    IN F[Len(s)]

buildListItems(cands, index, include, so) ==
    LET byDate == ByDate(cands)
        includedDates == IncludedDates(byDate, index, include)
        P[i \in 0..Len(includedDates)] ==
            IF i = 0 THEN <<>>
            ELSE LET dateStr == includedDates[i]
                     k == MapIndex(byDate, dateStr)
                     date == parseDateStr(dateStr)
                 IN IF k # 0
                    THEN Append(P[i - 1], CandidateItem(byDate[k], index, include))
                    ELSE IF ~isValid(date) THEN P[i - 1]
                    ELSE Append(P[i - 1],
                                PlaceholderItem(dateStr, date, index, include))
        normalizedSortOrder == normalizeListViewSortOrder(so)
    IN SortItems(P[Len(includedDates)], normalizedSortOrder)

----------------------------------------------------------------------------
(* Grouping engine *)

normalizeListViewGroupingPreset(p) ==
    IF p \in {"year", "year_month", "year_month_name", "year_month_num_name",
              "year_quarter", "year_week"}
    THEN p ELSE "year"

Segment(idPart, label) == [idPart |-> idPart, label |-> label]

\* Variant: the month-name preset builds its ids from the month name.
getSegmentsForDateNamedIds(date, p, loc) ==
    CASE p = "year" ->
            <<Segment(ToString(year(date)), ToString(year(date)))>>
      [] p = "year_month" ->
            <<Segment(ToString(year(date)), ToString(year(date))),
              Segment(pad2(month(date) + 1), pad2(month(date) + 1))>>
      [] p = "year_month_name" ->
            <<Segment(ToString(year(date)), ToString(year(date))),
              Segment(formatMMMM(date, loc), formatMMMM(date, loc))>>
      [] p = "year_month_num_name" ->
            <<Segment(ToString(year(date)), ToString(year(date))),
              Segment(pad2(month(date) + 1),
                      pad2(month(date) + 1) \o "-" \o formatMMMM(date, loc))>>
      [] p = "year_quarter" ->
            <<Segment(ToString(year(date)), ToString(year(date))),
              Segment("Q" \o ToString(quarter(date)),
                      "Q" \o ToString(quarter(date)))>>
      [] p = "year_week" ->
            <<Segment(ToString(isoWeekYear(date)), ToString(isoWeekYear(date))),
              Segment(pad2(isoWeek(date)), "W" \o pad2(isoWeek(date)))>>

\* Variant: the week preset takes the calendar year for its year segment.
getSegmentsForDateCalendarYear(date, p, loc) ==
    CASE p = "year" ->
            <<Segment(ToString(year(date)), ToString(year(date)))>>
      [] p = "year_month" ->
            <<Segment(ToString(year(date)), ToString(year(date))),
              Segment(pad2(month(date) + 1), pad2(month(date) + 1))>>
      [] p = "year_month_name" ->
            <<Segment(ToString(year(date)), ToString(year(date))),
              Segment(pad2(month(date) + 1), formatMMMM(date, loc))>>
      [] p = "year_month_num_name" ->
            <<Segment(ToString(year(date)), ToString(year(date))),
              Segment(pad2(month(date) + 1),
                      pad2(month(date) + 1) \o "-" \o formatMMMM(date, loc))>>
      [] p = "year_quarter" ->
            <<Segment(ToString(year(date)), ToString(year(date))),
              Segment("Q" \o ToString(quarter(date)),
                      "Q" \o ToString(quarter(date)))>>
      [] p = "year_week" ->
            <<Segment(ToString(year(date)), ToString(year(date))),
              Segment(pad2(isoWeek(date)), "W" \o pad2(isoWeek(date)))>>

getSegmentsForDate(date, p, loc) ==
    CASE p = "year" ->
            <<Segment(ToString(year(date)), ToString(year(date)))>>
      [] p = "year_month" ->
            <<Segment(ToString(year(date)), ToString(year(date))),
              Segment(pad2(month(date) + 1), pad2(month(date) + 1))>>
      [] p = "year_month_name" ->
            <<Segment(ToString(year(date)), ToString(year(date))),
              Segment(pad2(month(date) + 1), formatMMMM(date, loc))>>
      [] p = "year_month_num_name" ->
            <<Segment(ToString(year(date)), ToString(year(date))),
              Segment(pad2(month(date) + 1),
                      pad2(month(date) + 1) \o "-" \o formatMMMM(date, loc))>>
      [] p = "year_quarter" ->
            <<Segment(ToString(year(date)), ToString(year(date))),
              Segment("Q" \o ToString(quarter(date)),
                      "Q" \o ToString(quarter(date)))>>
      [] p = "year_week" ->
            <<Segment(ToString(isoWeekYear(date)), ToString(isoWeekYear(date))),
              Segment(pad2(isoWeek(date)), "W" \o pad2(isoWeek(date)))>>

getListGroupIdPathForDate(date, p, loc) ==
    LET segments == getSegmentsForDate(date, normalizeListViewGroupingPreset(p), loc)
    IN [i \in 1..Len(segments) |->
            Join([j \in 1..i |-> segments[j].idPart])]

\* -Infinity, the maxEpoch of a node that has seen no item: below every epoch
NegInfinity == -1

\* Position of the node with this id in a Map of nodes kept as a sequence in
\* insertion order; 0 when absent.
NodeIndex(nodes, id) ==
    LET hits == {i \in 1..Len(nodes) : nodes[i].id = id}
    IN IF hits = {} THEN 0 ELSE CHOOSE i \in hits : TRUE

\* Variant: the item is pushed on the node of the first segment.
RECURSIVE InsertItemAtFirst(_, _, _, _)
InsertItemAtFirst(current, parts, segs, item) ==
    IF segs = <<>> THEN current
    ELSE
        LET seg == Head(segs)
            parts2 == Append(parts, seg.idPart)
            id == Join(parts2)
            k == NodeIndex(current, id)
            node == IF k = 0
                    THEN [id |-> id, label |-> seg.label, children |-> <<>>,
                          items |-> <<>>, maxEpoch |-> NegInfinity]
                    ELSE [current[k] EXCEPT !.label = seg.label]
            seen == [node EXCEPT !.maxEpoch = Max(@, item.epoch)]
            pushed == IF parts = <<>>
                      THEN [seen EXCEPT !.items = Append(@, item)] ELSE seen
            done == IF Len(segs) = 1 THEN pushed
                    ELSE [pushed EXCEPT
                            !.children =
                                InsertItemAtFirst(@, parts2, Tail(segs), item)]
        IN IF k = 0 THEN Append(current, done) ELSE [current EXCEPT ![k] = done]

\* One pass of the loop over the items: walk the item's segments from the
\* Map `current`, creating or reusing the node of each cumulative id, and
\* push the item on the node of the last segment.
RECURSIVE InsertItem(_, _, _, _)
InsertItem(current, parts, segs, item) ==
    IF segs = <<>> THEN current
    ELSE
        LET seg == Head(segs)
            parts2 == Append(parts, seg.idPart)
            id == Join(parts2)
            k == NodeIndex(current, id)
            node == IF k = 0
                    THEN [id |-> id, label |-> seg.label, children |-> <<>>,
                          items |-> <<>>, maxEpoch |-> NegInfinity]
                    ELSE [current[k] EXCEPT !.label = seg.label]
            seen == [node EXCEPT !.maxEpoch = Max(@, item.epoch)]
            done == IF Len(segs) = 1
                    THEN [seen EXCEPT !.items = Append(@, item)]
                    ELSE [seen EXCEPT
                            !.children = InsertItem(@, parts2, Tail(segs), item)]
        IN IF k = 0 THEN Append(current, done) ELSE [current EXCEPT ![k] = done]

\* root after the loop over the items
BuildRoot(its, p, loc) ==
    LET F[i \in 0..Len(its)] ==
            IF i = 0 THEN <<>>
            ELSE InsertItem(F[i - 1], <<>>,
                            getSegmentsForDate(its[i].date, p, loc), its[i])
    IN F[Len(its)]

\* Variant: groups are compared newest first whatever the sort order.
compareGroupByEpochDescOnly(so, a, b) == b.maxEpoch - a.maxEpoch

compareGroupByEpoch(so, a, b) ==
    IF so = "asc" THEN a.maxEpoch - b.maxEpoch ELSE b.maxEpoch - a.maxEpoch

\* Array.from(children.values()).sort(compareGroupByEpoch), stable as above
InsertGroupSorted(sorted, e, so) ==
    LET before == {k \in 1..Len(sorted) : compareGroupByEpoch(so, e, sorted[k]) < 0}
        pos == IF before = {} THEN Len(sorted) + 1
               ELSE CHOOSE k \in before : \A j \in before : k <= j
    IN SubSeq(sorted, 1, pos - 1) \o <<e>> \o SubSeq(sorted, pos, Len(sorted))

SortGroups(s, so) ==
    LET F[i \in 0..Len(s)] ==
            IF i = 0 THEN <<>> ELSE InsertGroupSorted(F[i - 1], s[i], so)
    IN F[Len(s)]

\* reduce((sum, g) => sum + g.dailyNoteCount, 0)
SumDailyNoteCount(gs) ==
    LET F[i \in 0..Len(gs)] ==
            IF i = 0 THEN 0 ELSE F[i - 1] + gs[i].dailyNoteCount
    IN F[Len(gs)]

\* Variant: every item is counted, with or without a daily note.
CountDailyNotesAll(its) == Len(its)

\* reduce((sum, item) => sum + (item.dailyNoteExists ? 1 : 0), 0)
CountDailyNotes(its) ==
    LET F[i \in 0..Len(its)] ==
            IF i = 0 THEN 0
            ELSE F[i - 1] + (IF its[i].dailyNoteExists THEN 1 ELSE 0)
    IN F[Len(its)]

RECURSIVE finalize(_, _)
finalize(node, so) ==
    LET sortedChildren == SortGroups(node.children, so)
        finalGroups == [i \in 1..Len(sortedChildren) |->
                            finalize(sortedChildren[i], so)]
        sortedItems == IF Len(finalGroups) # 0 THEN <<>>
                       ELSE SortItems(node.items, so)
        dailyNoteCount == IF Len(finalGroups) # 0
                          THEN SumDailyNoteCount(finalGroups)
                          ELSE CountDailyNotes(node.items)
    IN [id |-> node.id,
        label |-> node.label,
        groups |-> finalGroups,
        items |-> sortedItems,
        dailyNoteCount |-> dailyNoteCount,
        maxEpoch |-> node.maxEpoch]

buildListGroups(its, p, so, loc) ==
    LET normalized == normalizeListViewGroupingPreset(p)
        normalizedSortOrder == normalizeListViewSortOrder(so)
        root == BuildRoot(its, normalized, loc)
        sortedRoot == SortGroups(root, normalizedSortOrder)
    IN [i \in 1..Len(sortedRoot) |-> finalize(sortedRoot[i], normalizedSortOrder)]

----------------------------------------------------------------------------
(* Inputs *)

SortOrders == {"asc", "desc", "newest"}

Presets ==
    {"year", "year_month", "year_month_name", "year_month_num_name",
     "year_quarter", "year_week", "decade"}

\* The days that daily notes and created-day buckets of the merger refer to
MergeDates == {dt \in Dates : dt.y = 2025 /\ dt.m = 12}

\* A key of createdOnDayIndex that parses to no calendar day
BadKey == "not-a-date"

IndexKeys == {formatYMD(dt) : dt \in MergeDates} \cup {BadKey}

\* Folder of the i-th daily-note file: files differ in their paths
Folder(i) == IF i = 1 THEN "Daily" ELSE "Copy" \o ToString(i)

DailyPath(i, dateStr) == Folder(i) \o "/" \o dateStr \o ".md"

\* The candidate computeList builds from a daily-note file
Candidate(i, date, mtime, qualifies) ==
    [date |-> date,
     dateUID |-> getDayDateUID(date),
     dateStr |-> formatYMD(date),
     epoch |-> valueOf(date),
     year |-> year(date),
     file |-> TFile(DailyPath(i, formatYMD(date))),
     filePath |-> DailyPath(i, formatYMD(date)),
     mtime |-> mtime,
     qualifies |-> qualifies]

\* The lists of n candidates
CandidateLists(n) ==
    {[i \in 1..n |-> Candidate(i, c[i][1], c[i][2], c[i][3])] :
        c \in [1..n -> MergeDates \X (0..MaxMtime) \X BOOLEAN]}

\* Buckets of a day: notes and files are sorted by path, without repeats
Buckets(key) ==
    {[notes |-> <<TFile(DailyPath(1, key))>>, files |-> <<>>],
     [notes |-> <<TFile(DailyPath(1, key)), TFile("Notes/x.md")>>,
      files |-> <<TFile("Files/a.png")>>],
     [notes |-> <<>>, files |-> <<TFile("Files/a.png")>>],
     [notes |-> <<>>, files |-> <<>>]}

\* Lists of at most n distinct keys, in insertion order
KeyLists(n) ==
    UNION {{ks \in [1..m -> IndexKeys] :
                \A i, j \in 1..m : i # j => ks[i] # ks[j]} :
           m \in 0..n}

BucketLists(ks) ==
    {bs \in [DOMAIN ks -> UNION {Buckets(k) : k \in IndexKeys}] :
        \A i \in DOMAIN ks : bs[i] \in Buckets(ks[i])}

\* No index, or an index of at most n entries
Indexes(n) ==
    {NullIndex} \cup
    UNION {{Index([i \in DOMAIN ks |-> [key |-> ks[i], bucket |-> bs[i]]]) :
                bs \in BucketLists(ks)} :
           ks \in KeyLists(n)}

\* The value of a variable that is no argument of the call being made
NotPassed == [notPassed |-> TRUE]

\* An item as the tests of buildListGroups make it, with or without a note
MakeItem(date, exists) ==
    [date |-> date,
     dateUID |-> getDayDateUID(date),
     dateStr |-> formatYMD(date),
     epoch |-> valueOf(date),
     year |-> year(date),
     file |-> IF exists THEN TFile(DailyPath(1, formatYMD(date))) ELSE NoFile,
     filePath |-> IF exists THEN DailyPath(1, formatYMD(date)) ELSE "",
     mtime |-> IF exists THEN 1 ELSE 0,
     dailyNoteExists |-> exists,
     createdNotesCount |-> 0,
     createdFilesCount |-> 0]

\* Item lists in any order, one item per day
ItemLists ==
    UNION {
        {[i \in 1..n |-> MakeItem(c[i][1], c[i][2])] :
            c \in {f \in [1..n -> Dates \X BOOLEAN] :
                    \A i, j \in 1..n : i # j => f[i][1] # f[j][1]}} :
        n \in 0..MaxItems}

----------------------------------------------------------------------------
(* computeList of Calendar.svelte *)

Null == [null |-> TRUE]

\* err.message of the error a run or a build caught
ErrorMessage == [message |-> "error"]

\* The index state of the component as constructed
IndexIdle ==
    /\ createdOnDayIndexLoading = FALSE
    /\ createdOnDayIndexError = Null
    /\ createdOnDayIndexBuildNonce = 0
    /\ createdOnDayIndexBuiltOnce = FALSE
    /\ createdOnDayIndexPendingOps = <<>>
    /\ builds = <<>>
    /\ events = 0
    /\ lastEvent = "none"

\* An empty Record<string, ...>
EmptyRecord == [k \in {} |-> TRUE]

\* JavaScript values as they come out of JSON.parse or of a caller: a value
\* carries its kind. An object is the sequence of its entries in the order of
\* Object.entries, kept as runs: n entries with distinct keys of one kind
\* ("" the empty key, "k" any other key, or the name of a property) and the
\* same value.
JSUndefined == [t |-> "undefined"]
JSNull == [t |-> "null"]
JSArray == [t |-> "array"]
JSNumber == [t |-> "number"]
JSBoolean(b) == [t |-> "boolean", v |-> b]
JSString(str) == [t |-> "string", v |-> str]
JSObject(entries) == [t |-> "object", entries |-> entries]
Entries(n, key, v) == [n |-> n, key |-> key, v |-> v]

\* A CalendarViewState, or any object in its place
ViewState(sl, dm, gos, dos, dcos) ==
    [t |-> "object", showList |-> sl, displayedMonth |-> dm,
     groupOpenState |-> gos, dayOpenState |-> dos, dayChildOpenState |-> dcos]

\* main.ts: defaultViewState
defaultViewState ==
    ViewState(JSBoolean(FALSE), JSNull, JSObject(<<>>), JSObject(<<>>),
              JSObject(<<>>))

\* No call of applyCreatedOnDayIndexOp on its own, and the plugin as
\* constructed
\* let listComputeTimer: number | null = null: no handle is 0 here, the
\* handles of window.setTimeout being positive
NoTimer == 0

\* No call of scheduleListRecompute yet
NoRequest == [at |-> 0, shown |-> FALSE, visibleAt |-> 0, burst |-> 0]

TimersIdle ==
    /\ now = 0
    /\ timeouts = {}
    /\ lastTimerId = 0
    /\ listComputeTimer = NoTimer
    /\ listRefreshTimer = NoTimer
    /\ computeCalls = <<>>
    /\ lastRequest = NoRequest

\* The notes whose metrics are asked for
MetricsPaths == {"a.md", "b.md"}

\* No metrics: the value of a computation that has not settled
NoValue == [mtime |-> 0, content |-> 0]

\* No entry of inFlight for a path
NoFlight == [mtime |-> 0, promise |-> 0]

\* No call of getNoteMetrics yet
NoCall == [key |-> "", mtime |-> 0, how |-> "none", promise |-> 0,
           value |-> NoValue]

MetricsIdle ==
    /\ fileMtime = [p \in MetricsPaths |-> 1]
    /\ cache = <<>>
    /\ inFlight = [p \in MetricsPaths |-> NoFlight]
    /\ promises = <<>>
    /\ lastCall = NoCall
    /\ recency = <<>>

OthersIdle ==
    /\ opArg = Null
    /\ nextIndex = Null
    /\ viewState = defaultViewState
    /\ TimersIdle
    /\ MetricsIdle

\* Files awaited together in one chunk
concurrency == 10

Min(a, b) == IF a <= b THEN a ELSE b

\* A daily-note file: getDateFromFile gives its day, getWordCountFromFile its
\* word count
DailyNoteFile(date, words, tasks) ==
    [path |-> DailyPath(1, formatYMD(date)), date |-> date, words |-> words,
     tasks |-> tasks]

DailyNoteFiles ==
    {DailyNoteFile([y |-> 2025, m |-> 11, d |-> 30], 3, 0),
     DailyNoteFile([y |-> 2025, m |-> 12, d |-> 13], 5, 1)}

\* What window.app.vault.cachedRead does for the files of a chunk: it gives
\* their text, it is missing, or it is rejected; "none" when no file is read
ReadOutcomes == {"text", "unavailable", "rejects"}

\* noteMetrics.ts: the metrics of a file whose read is not rejected
computeMetrics(file, read) ==
    IF read = "unavailable" THEN [wordCount |-> 0, openTaskCount |-> 0]
    ELSE [wordCount |-> file.words, openTaskCount |-> file.tasks]

\* noteMetrics.ts: the promise of getNoteMetrics is rejected; neither
\* computeMetrics nor getNoteMetrics catches what cachedRead throws
Rejects(read) == read = "rejects"

\* getNoteMetrics for a file with a path; a cached value is the value a read
\* of the same path and mtime gave
getNoteMetrics(file, read) == computeMetrics(file, read)

\* getWordCount, imported as getWordCountFromFile
getWordCountFromFile(file, read) == getNoteMetrics(file, read).wordCount

MinWordsValues == {0, 5}

\* Object.values(dailyNotesRecord).filter(Boolean): the files, oldest day first
FilesOf(record) ==
    LET F[n \in 0..Cardinality(record)] ==
            IF n = 0 THEN <<>>
            ELSE LET done == Range(F[n - 1])
                     rest == record \ done
                 IN Append(F[n - 1],
                           CHOOSE f \in rest :
                               \A g \in rest : valueOf(f.date) <= valueOf(g.date))
    IN F[Cardinality(record)]

\* Variant: a note qualifies only with more words than the threshold.
CandidateOfFileAbove(file, minWords, read) ==
    LET includeAll == minWords <= 0
        qualifies == IF includeAll THEN TRUE
                     ELSE getWordCountFromFile(file, read) > minWords
    IN [date |-> file.date,
        dateUID |-> getDayDateUID(file.date),
        dateStr |-> formatYMD(file.date),
        epoch |-> valueOf(file.date),
        year |-> year(file.date),
        file |-> TFile(file.path),
        filePath |-> file.path,
        mtime |-> 1,
        qualifies |-> qualifies]

\* The candidate that the callback of chunk.map returns for a file
CandidateOfFile(file, minWords, read) ==
    LET includeAll == minWords <= 0
        qualifies == IF includeAll THEN TRUE
                     ELSE getWordCountFromFile(file, read) >= minWords
    IN [date |-> file.date,
        dateUID |-> getDayDateUID(file.date),
        dateStr |-> formatYMD(file.date),
        epoch |-> valueOf(file.date),
        year |-> year(file.date),
        file |-> TFile(file.path),
        filePath |-> file.path,
        mtime |-> 1,
        qualifies |-> qualifies]

\* collectIds: the ids of all nodes of the tree
RECURSIVE collectIds(_)
collectIds(nodes) ==
    UNION {{nodes[i].id} \cup collectIds(nodes[i].groups) : i \in 1..Len(nodes)}

\* Variant: a group without an entry is seeded open.
DefaultOpenAlways(id, defaultOpenSet) == TRUE

\* defaultOpenSet.has(id)
DefaultOpen(id, defaultOpenSet) == id \in defaultOpenSet

\* Variant: the entries of groups that are gone are kept.
ReconcileGroupOpenStateNoPrune(prev, groupIdSet, defaultOpenSet) ==
    [id \in groupIdSet \cup DOMAIN prev |->
        IF id \in DOMAIN prev THEN prev[id] ELSE DefaultOpen(id, defaultOpenSet)]

\* nextOpenState after seeding and pruning
ReconcileGroupOpenState(prev, groupIdSet, defaultOpenSet) ==
    [id \in groupIdSet |->
        IF id \in DOMAIN prev THEN prev[id] ELSE DefaultOpen(id, defaultOpenSet)]

\* Variant: a day without an entry is seeded open.
ReconcileDayOpenStateSeedsOpen(prev, dayUIDSet) ==
    [uid \in dayUIDSet |-> IF uid \in DOMAIN prev THEN prev[uid] ELSE TRUE]

\* nextDayOpenState after seeding and pruning
ReconcileDayOpenState(prev, dayUIDSet) ==
    [uid \in dayUIDSet |-> IF uid \in DOMAIN prev THEN prev[uid] ELSE FALSE]

\* Variant: the files flag of a day that has an entry is inverted.
ReconcileDayChildOpenStateInverts(prev, dayUIDSet) ==
    [uid \in dayUIDSet |->
        IF uid \in DOMAIN prev THEN [files |-> ~prev[uid].files]
        ELSE [files |-> FALSE]]

\* nextDayChildOpenState after seeding and pruning
ReconcileDayChildOpenState(prev, dayUIDSet) ==
    [uid \in dayUIDSet |->
        IF uid \in DOMAIN prev THEN [files |-> prev[uid].files]
        ELSE [files |-> FALSE]]

\* Position of a run: awaiting a chunk with the files, the settings read at its
\* start, and the candidates gathered so far; or returned
Run(nonce, at, files, minWords, i, candidates) ==
    [nonce |-> nonce, at |-> at, files |-> files, listViewMinWords |-> minWords,
     i |-> i, candidates |-> candidates, read |-> "none"]

\* A run that has returned: its locals are gone; how it returned and what the
\* reads of its last chunk did are kept
ReturnedRun(run, at, read) ==
    [Run(run.nonce, at, <<>>, run.listViewMinWords, 0, <<>>) EXCEPT !.read = read]

\* Variant: a run that resumes is never taken for stale.
StaleAfterChunkNever(nonce, current) == FALSE

\* if (nonce !== listComputeNonce) after the await of a chunk
StaleAfterChunk(nonce, current) == nonce # current

\* The tail of the try block for the candidates gathered: items, groups,
\* reconciled open states, and the assignment of listGroups
CommitList(candidates) ==
    LET newItems == buildListItems(
                        candidates,
                        IF includeCreatedDays THEN createdOnDayIndex ELSE Index(<<>>),
                        includeCreatedDays,
                        normalizeListViewSortOrder(sortOrder))
        newGroups == buildListGroups(newItems,
                                     normalizeListViewGroupingPreset(preset),
                                     normalizeListViewSortOrder(sortOrder), locale)
        todayPath == getListGroupIdPathForDate(
                         today, normalizeListViewGroupingPreset(preset), locale)
        dayUIDSet == {newItems[k].dateUID : k \in 1..Len(newItems)}
    IN /\ groupOpenState' = ReconcileGroupOpenState(
                                groupOpenState, collectIds(newGroups), Range(todayPath))
       /\ dayOpenState' = ReconcileDayOpenState(dayOpenState, dayUIDSet)
       /\ dayChildOpenState' = ReconcileDayChildOpenState(dayChildOpenState, dayUIDSet)
       /\ listGroups' = newGroups

\* computeList() up to its first await, or to its end when there is no file
ComputeList ==
    /\ pc = "compute"
    /\ listComputeNonce < MaxRuns
    /\ LET nonce == listComputeNonce + 1
           files == FilesOf(dailyNotes)
       IN /\ listComputeNonce' = nonce
          /\ listError' = Null
          /\ IF Len(files) = 0
             THEN /\ CommitList(<<>>)
                  /\ listLoading' = FALSE
                  /\ runs' = Append(runs, Run(nonce, "done", files,
                                              listViewMinWords, 0, <<>>))
             ELSE /\ listLoading' = TRUE
                  /\ runs' = Append(runs, Run(nonce, "await", files,
                                              listViewMinWords, 0, <<>>))
                  /\ UNCHANGED <<listGroups, groupOpenState, dayOpenState,
                                 dayChildOpenState>>
    /\ UNCHANGED <<pc, dailyNoteCandidates, createdOnDayIndex, includeCreatedDays,
                   toggles,
                   sortOrder, locale, preset, items, groups, today, idPath,
                   dailyNotes, listViewMinWords>>
    /\ UNCHANGED <<indexVars, otherVars>>

\* Variant: the list is left as it was when a run fails.
GroupsAfterErrorKept(prev) == prev

\* listGroups = [] of the catch block
GroupsAfterError(prev) == <<>>

\* Variant: the finally block clears the loading flag whatever the token.
CatchListErrorAnyToken(n, read) ==
    /\ listError' = ErrorMessage
    /\ listGroups' = GroupsAfterError(listGroups)
    /\ listLoading' = FALSE
    /\ runs' = [runs EXCEPT ![n] = ReturnedRun(@, "failed", read)]

\* The catch and finally blocks of the run at position n, the reads of the
\* chunk it awaited having had this outcome
CatchListError(n, read) ==
    IF runs[n].nonce # listComputeNonce
    THEN /\ runs' = [runs EXCEPT ![n] = ReturnedRun(@, "stale", read)]
         /\ UNCHANGED <<listError, listGroups, listLoading>>
    ELSE /\ listError' = ErrorMessage
         /\ listGroups' = GroupsAfterError(listGroups)
         /\ listLoading' = FALSE
         /\ runs' = [runs EXCEPT ![n] = ReturnedRun(@, "failed", read)]

\* A run resumes with the results of the chunk it awaited, the reads of the
\* chunk having had this outcome
ComputeListResume(n, read) ==
    /\ pc = "compute"
    /\ n \in 1..Len(runs)
    /\ runs[n].at = "await"
    /\ IF runs[n].listViewMinWords <= 0 THEN read = "none"
       ELSE read \in ReadOutcomes
    /\ LET r == runs[n]
           last == Min(r.i + concurrency, Len(r.files))
           chunkResults == [k \in 1..(last - r.i) |->
                               CandidateOfFile(r.files[r.i + k],
                                               r.listViewMinWords, read)]
           candidates == r.candidates \o chunkResults
       IN IF Rejects(read)
          THEN \* Promise.all is rejected: the catch and finally blocks
               /\ CatchListError(n, read)
               /\ UNCHANGED <<groupOpenState, dayOpenState, dayChildOpenState>>
          ELSE IF StaleAfterChunk(r.nonce, listComputeNonce)
          THEN /\ runs' = [runs EXCEPT ![n] = ReturnedRun(@, "stale", read)]
               /\ UNCHANGED <<listLoading, listGroups, groupOpenState,
                              dayOpenState, dayChildOpenState, listError>>
          ELSE IF r.i + concurrency < Len(r.files)
          THEN /\ runs' = [runs EXCEPT ![n].i = r.i + concurrency,
                                       ![n].candidates = candidates,
                                       ![n].read = read]
               /\ UNCHANGED <<listLoading, listGroups, groupOpenState,
                              dayOpenState, dayChildOpenState, listError>>
          ELSE /\ CommitList(candidates)
               /\ listLoading' = IF r.nonce = listComputeNonce THEN FALSE
                                 ELSE listLoading
               /\ runs' = [runs EXCEPT ![n] = ReturnedRun(@, "done", read)]
               /\ UNCHANGED listError
    /\ UNCHANGED <<pc, dailyNoteCandidates, createdOnDayIndex, includeCreatedDays,
                   toggles,
                   sortOrder, locale, preset, items, groups, today, idPath,
                   dailyNotes, listViewMinWords, listComputeNonce>>
    /\ UNCHANGED <<indexVars, otherVars>>

\* The code that follows the await of a chunk throws: the catch and finally
\* blocks
ComputeListThrows(n) ==
    /\ pc = "compute"
    /\ n \in 1..Len(runs)
    /\ runs[n].at = "await"
    /\ CatchListError(n, runs[n].read)
    /\ UNCHANGED <<pc, dailyNoteCandidates, createdOnDayIndex, includeCreatedDays,
                   toggles,
                   sortOrder, locale, preset, items, groups, today, idPath,
                   dailyNotes, listViewMinWords, listComputeNonce,
                   groupOpenState, dayOpenState, dayChildOpenState>>
    /\ UNCHANGED <<indexVars, otherVars>>

\* open={state[key]} of a <details>: the entry is there and true
Truthy(state, key) == key \in DOMAIN state /\ state[key]

\* ListGroup.svelte: the nodes whose <details> is in the document; the
\* children of a node are rendered when the node is open
RECURSIVE RenderedGroups(_, _)
RenderedGroups(nodes, openState) ==
    UNION {{nodes[i]} \cup
           (IF Truthy(openState, nodes[i].id)
            THEN RenderedGroups(nodes[i].groups, openState) ELSE {}) :
           i \in 1..Len(nodes)}

\* The items handed to the slot: those of the open nodes without child groups
RenderedItems(nodes, openState) ==
    UNION {Range(g.items) :
           g \in {n \in RenderedGroups(nodes, openState) :
                     Truthy(openState, n.id) /\ Len(n.groups) = 0}}

\* getCreatedFilesForItem
getCreatedFilesForItem(index, include, item) ==
    IF ~include THEN <<>>
    ELSE LET bucket == Lookup(index, item.dateStr)
         IN IF bucket = NullBucket THEN <<>> ELSE bucket.files

\* The items whose "Attachments" <details> is in the document
RenderedDayChildren ==
    {item \in RenderedItems(listGroups, groupOpenState) :
        /\ Truthy(dayOpenState, item.dateUID)
        /\ includeCreatedDays
        /\ Len(getCreatedFilesForItem(createdOnDayIndex, includeCreatedDays,
                                      item)) # 0}

\* {...state, [key]: value}
Spread(state, key, value) ==
    [k \in DOMAIN state \cup {key} |-> IF k = key THEN value ELSE state[k]]

\* What the toggle handlers leave alone
UnchangedByToggle ==
    /\ UNCHANGED <<pc, dailyNoteCandidates, createdOnDayIndex, includeCreatedDays,
                   sortOrder, locale, preset, items, groups, today, idPath,
                   dailyNotes, listViewMinWords, listComputeNonce, listLoading,
                   listError, listGroups, runs>>
    /\ UNCHANGED <<indexVars, otherVars>>

\* onToggleGroup: the user opens or closes the <details> of a group;
\* el.open is the opposite of what was rendered
OnToggleGroup(id) ==
    /\ pc = "compute"
    /\ toggles < MaxToggles
    /\ id \in {g.id : g \in RenderedGroups(listGroups, groupOpenState)}
    /\ groupOpenState' = Spread(groupOpenState, id, ~Truthy(groupOpenState, id))
    /\ toggles' = toggles + 1
    /\ UNCHANGED <<dayOpenState, dayChildOpenState>>
    /\ UnchangedByToggle

\* onToggleDay: the user opens or closes the <details> of a day
OnToggleDay(dateUID) ==
    /\ pc = "compute"
    /\ toggles < MaxToggles
    /\ dateUID \in {item.dateUID :
                        item \in RenderedItems(listGroups, groupOpenState)}
    /\ dayOpenState' = Spread(dayOpenState, dateUID, ~Truthy(dayOpenState, dateUID))
    /\ toggles' = toggles + 1
    /\ UNCHANGED <<groupOpenState, dayChildOpenState>>
    /\ UnchangedByToggle

\* onToggleDayChild(dateUID, "files", event): the user opens or closes the
\* "Attachments" <details> of a day
OnToggleDayChild(dateUID) ==
    /\ pc = "compute"
    /\ toggles < MaxToggles
    /\ dateUID \in {item.dateUID : item \in RenderedDayChildren}
    /\ LET prev == IF dateUID \in DOMAIN dayChildOpenState
                   THEN dayChildOpenState[dateUID] ELSE [files |-> FALSE]
       IN dayChildOpenState' =
              Spread(dayChildOpenState, dateUID, [files |-> ~prev.files])
    /\ toggles' = toggles + 1
    /\ UNCHANGED <<groupOpenState, dayOpenState>>
    /\ UnchangedByToggle

\* The $dailyNotes store changes: a daily note is created or deleted
DailyNotesChange ==
    /\ pc = "compute"
    /\ \E f \in DailyNoteFiles :
        dailyNotes' = IF f \in dailyNotes THEN dailyNotes \ {f}
                      ELSE dailyNotes \cup {f}
    /\ UNCHANGED <<pc, dailyNoteCandidates, createdOnDayIndex, includeCreatedDays,
                   toggles,
                   sortOrder, locale, preset, items, groups, today, idPath,
                   listViewMinWords, listComputeNonce, listLoading, listError,
                   listGroups, groupOpenState, dayOpenState, dayChildOpenState,
                   runs>>
    /\ UNCHANGED <<indexVars, otherVars>>

\* The component as constructed, before any computeList run
ComputeIdle ==
    /\ toggles = 0
    /\ listComputeNonce = 0
    /\ listLoading = FALSE
    /\ listError = Null
    /\ listGroups = <<>>
    /\ groupOpenState = EmptyRecord
    /\ dayOpenState = EmptyRecord
    /\ dayChildOpenState = EmptyRecord
    /\ runs = <<>>

\* The created-on-day index of the model: empty, or an attachment created on
\* a day that has no daily note
ComputeIndexes ==
    {Index(<<>>),
     Index(<<[key |-> "2025-12-14",
              bucket |-> [notes |-> <<>>, files |-> <<TFile("c.png")>>]]>>)}

InitCompute ==
    /\ pc = "compute"
    /\ dailyNoteCandidates = <<>>
    /\ createdOnDayIndex \in ComputeIndexes
    /\ includeCreatedDays = TRUE
    /\ sortOrder = "desc"
    /\ locale = "en"
    /\ preset = "year_month"
    /\ items = <<>>
    /\ groups = <<>>
    /\ today = [y |-> 2025, m |-> 12, d |-> 13]
    /\ idPath = <<>>
    /\ dailyNotes \in SUBSET DailyNoteFiles
    /\ listViewMinWords \in MinWordsValues
    /\ ComputeIdle
    /\ vault = {}
    /\ showList = TRUE
    /\ prevListViewIncludeCreatedDays = includeCreatedDays
    /\ IndexIdle
    /\ OthersIdle

NextCompute ==
    \/ ComputeList
    \/ \E n \in 1..MaxRuns, read \in ReadOutcomes \cup {"none"} :
            ComputeListResume(n, read)
    \/ \E n \in 1..MaxRuns : ComputeListThrows(n)
    \/ DailyNotesChange
    \/ \E g \in RenderedGroups(listGroups, groupOpenState) : OnToggleGroup(g.id)
    \/ \E item \in RenderedItems(listGroups, groupOpenState) :
            OnToggleDay(item.dateUID)
    \/ \E item \in RenderedDayChildren : OnToggleDayChild(item.dateUID)

SpecCompute == InitCompute /\ [][NextCompute]_vars

\* A run waits for the reads of a chunk
Awaiting(n) == pc = "compute" /\ n \in 1..Len(runs) /\ runs[n].at = "await"

\* The promise a run awaits settles: the run resumes with the results or
\* with the rejection
Settle(n) ==
    \/ \E read \in ReadOutcomes \cup {"none"} : ComputeListResume(n, read)
    \/ ComputeListThrows(n)

\* The steps of the list while no row of it is clicked
NextComputeFair == NextCompute /\ UNCHANGED toggles

\* Every promise awaited settles in the end.  This is WF_runs(Settle(n))
\* written out: settling always changes runs[n].at, so
\* ENABLED <<Settle(n)>>_runs is Awaiting(n)
SpecComputeFair ==
    /\ InitCompute
    /\ [][NextComputeFair]_vars
    /\ \A n \in 1..MaxRuns : []<>~Awaiting(n) \/ []<><<Settle(n)>>_runs

----------------------------------------------------------------------------
(* The created-on-day index of Calendar.svelte *)

\* The paths of the model, in the order of String.prototype.localeCompare
Paths == <<".obsidian/app.json", ".trash/a.md", "a.md", "b.canvas", "c.png">>

PathRank(path) == CHOOSE i \in 1..Len(Paths) : Paths[i] = path

\* a.localeCompare(b)
localeCompare(a, b) == PathRank(a) - PathRank(b)

\* file.extension
Extension(path) ==
    CASE path = "b.canvas" -> "canvas"
      [] path = "c.png" -> "png"
      [] path = ".obsidian/app.json" -> "json"
      [] OTHER -> "md"

\* p.startsWith(prefix), for the two prefixes of shouldIndexFile
startsWith(p, prefix) ==
    CASE prefix = ".trash/" -> p = ".trash/a.md"
      [] prefix = ".obsidian/" -> p = ".obsidian/app.json"
      [] OTHER -> FALSE

\* Creation times, in days since 1970-01-01; 0 stands for a missing stat or
\* ctime
NoCTime == 0

Day13 == valueOf([y |-> 2025, m |-> 12, d |-> 13])

Day14 == valueOf([y |-> 2025, m |-> 12, d |-> 14])

\* A TFile of the vault
VaultFile(path, ctime) ==
    [path |-> path, extension |-> Extension(path), ctime |-> ctime]

\* The files of the model: any path for a file created on the first day, one
\* file created on the second day, one file whose creation time is missing
VaultFiles ==
    {VaultFile(Paths[i], Day13) : i \in 1..Len(Paths)}
    \cup {VaultFile("c.png", Day14)}
    \cup {VaultFile("a.md", NoCTime)}

\* The renames of the model: into and out of the trash, and between two note
\* paths
RenamePairs ==
    {<<"a.md", ".trash/a.md">>, <<".trash/a.md", "a.md">>,
     <<"a.md", "b.canvas">>, <<"b.canvas", "a.md">>}

isNoteLikeFile(file) ==
    LET ext == file.extension
    IN ext = "md" \/ ext = "canvas"

\* Variant: every file is indexed.
shouldIndexFileAlways(file) == TRUE

shouldIndexFile(file) ==
    LET p == file.path
    IN IF startsWith(p, ".obsidian/") THEN FALSE
       ELSE IF startsWith(p, ".trash/") THEN FALSE
       ELSE TRUE

\* new Date(epochMs), as year, month and day of the month
DateOfEpoch(epoch) == CHOOSE dt \in Dates : valueOf(dt) = epoch

\* Variant: every creation time is taken for one of 13 December 2025.
formatLocalDateYYYYMMDDOneDay(epoch) == "2025-12-13"

formatLocalDateYYYYMMDD(epoch) ==
    LET d == DateOfEpoch(epoch)
    IN ToString(d.y) \o "-" \o pad2((d.m - 1) + 1) \o "-" \o pad2(d.d)

\* arr.filter((f) => f?.path !== path)
WithoutPath(arr, path) ==
    LET F[i \in 0..Len(arr)] ==
            IF i = 0 THEN <<>>
            ELSE IF arr[i].path # path THEN Append(F[i - 1], arr[i])
            ELSE F[i - 1]
    IN F[Len(arr)]

\* Variant: the file is pushed at the end of the list.
upsertSortedByPathAtEnd(arr, file) == Append(WithoutPath(arr, file.path), file)

upsertSortedByPath(arr, file) ==
    LET path == file.path
        without == WithoutPath(arr, path)
        \* the binary search ends at the first position whose path is not
        \* before the new one
        notBefore == {k \in 1..Len(without) :
                        ~(localeCompare(without[k].path, path) < 0)}
        lo == IF notBefore = {} THEN Len(without)
              ELSE (CHOOSE k \in notBefore : \A j \in notBefore : k <= j) - 1
    IN SubSeq(without, 1, lo) \o <<file>> \o SubSeq(without, lo + 1, Len(without))

removeByPath(arr, path) ==
    LET hits == {k \in 1..Len(arr) : arr[k].path = path}
    IN IF hits = {} THEN arr
       ELSE LET idx == CHOOSE k \in hits : \A j \in hits : k <= j
            IN SubSeq(arr, 1, idx - 1) \o SubSeq(arr, idx + 1, Len(arr))

\* { ...index, [key]: bucket }
IndexSet(index, key, bucket) ==
    IF \E i \in 1..Len(index.entries) : index.entries[i].key = key
    THEN Index([i \in 1..Len(index.entries) |->
                    IF index.entries[i].key = key
                    THEN [key |-> key, bucket |-> bucket]
                    ELSE index.entries[i]])
    ELSE Index(Append(index.entries, [key |-> key, bucket |-> bucket]))

\* delete nextIndex[key]
IndexDelete(index, key) ==
    LET F[i \in 0..Len(index.entries)] ==
            IF i = 0 THEN <<>>
            ELSE IF index.entries[i].key # key
            THEN Append(F[i - 1], index.entries[i])
            ELSE F[i - 1]
    IN Index(F[Len(index.entries)])

addFileToCreatedOnDayIndex(index, file) ==
    IF ~shouldIndexFile(file) THEN index
    ELSE IF file.ctime = NoCTime THEN index
    ELSE
        LET dateStr == formatLocalDateYYYYMMDD(file.ctime)
            found == Lookup(index, dateStr)
            prev == IF found = NullBucket THEN [notes |-> <<>>, files |-> <<>>]
                    ELSE found
            nextBucket ==
                IF isNoteLikeFile(file)
                THEN [notes |-> upsertSortedByPath(prev.notes, file),
                      files |-> WithoutPath(prev.files, file.path)]
                ELSE [notes |-> WithoutPath(prev.notes, file.path),
                      files |-> upsertSortedByPath(prev.files, file)]
        IN IndexSet(index, dateStr, nextBucket)

removeFromBucket(bucket, path) ==
    [notes |-> removeByPath(bucket.notes, path),
     files |-> removeByPath(bucket.files, path)]

\* Variant: a bucket is kept when its last entry is removed.
RemoveFromEntryKeepEmpty(index, key, path) ==
    LET prev == Lookup(index, key)
        nextBucket == removeFromBucket(prev, path)
        changed == \/ Len(nextBucket.notes) # Len(prev.notes)
                   \/ Len(nextBucket.files) # Len(prev.files)
    IN IF ~changed THEN index
       ELSE IndexSet(index, key, nextBucket)

\* The path is removed from the bucket of one key; the bucket is deleted when
\* this empties it
RemoveFromEntry(index, key, path) ==
    LET prev == Lookup(index, key)
        nextBucket == removeFromBucket(prev, path)
        changed == \/ Len(nextBucket.notes) # Len(prev.notes)
                   \/ Len(nextBucket.files) # Len(prev.files)
    IN IF ~changed THEN index
       ELSE IF Len(nextBucket.notes) = 0 /\ Len(nextBucket.files) = 0
       THEN IndexDelete(index, key)
       ELSE IndexSet(index, key, nextBucket)

\* Variant: without a creation time nothing is removed.
removeFileFromCreatedOnDayIndexNoScan(index, path, ctime) ==
    IF path = "" THEN index
    ELSE IF ctime # NoCTime /\ Lookup(index, formatLocalDateYYYYMMDD(ctime)) # NullBucket
    THEN RemoveFromEntry(index, formatLocalDateYYYYMMDD(ctime), path)
    ELSE index

removeFileFromCreatedOnDayIndex(index, path, ctime) ==
    IF path = "" THEN index
    ELSE IF ctime # NoCTime /\ Lookup(index, formatLocalDateYYYYMMDD(ctime)) # NullBucket
    THEN RemoveFromEntry(index, formatLocalDateYYYYMMDD(ctime), path)
    ELSE
        \* the fallback scan over the entries of the index
        LET keys == [i \in 1..Len(index.entries) |-> index.entries[i].key]
            F[i \in 0..Len(keys)] ==
                IF i = 0 THEN index
                ELSE RemoveFromEntry(F[i - 1], keys[i], path)
        IN F[Len(keys)]

CreateOp(file) == [type |-> "create", file |-> file]

DeleteOp(file) == [type |-> "delete", path |-> file.path, ctime |-> file.ctime]

RenameOp(file, oldPath) ==
    [type |-> "rename", file |-> file, oldPath |-> oldPath, ctime |-> file.ctime]

\* Variant: a rename only adds the file under its new path.
applyCreatedOnDayIndexOpRenameAdds(index, op) ==
    IF op.type = "create" THEN addFileToCreatedOnDayIndex(index, op.file)
    ELSE IF op.type = "delete"
    THEN removeFileFromCreatedOnDayIndex(index, op.path, op.ctime)
    ELSE addFileToCreatedOnDayIndex(index, op.file)

applyCreatedOnDayIndexOp(index, op) ==
    IF op.type = "create" THEN addFileToCreatedOnDayIndex(index, op.file)
    ELSE IF op.type = "delete"
    THEN removeFileFromCreatedOnDayIndex(index, op.path, op.ctime)
    ELSE
        LET ctime == op.ctime
            next1 == removeFileFromCreatedOnDayIndex(index, op.oldPath, ctime)
            next2 == removeFileFromCreatedOnDayIndex(next1, op.file.path, ctime)
        IN IF shouldIndexFile(op.file) /\ ctime # NoCTime
           THEN addFileToCreatedOnDayIndex(next2, op.file)
           ELSE next2

\* Variant: the queued operations are replayed newest first.
ReplayPendingOpsReversed(index, ops) ==
    LET F[i \in 0..Len(ops)] ==
            IF i = 0 THEN index
            ELSE applyCreatedOnDayIndexOp(F[i - 1], ops[Len(ops) + 1 - i])
    IN F[Len(ops)]

\* for (const op of createdOnDayIndexPendingOps) nextIndex = apply(nextIndex, op)
ReplayPendingOps(index, ops) ==
    LET F[i \in 0..Len(ops)] ==
            IF i = 0 THEN index
            ELSE applyCreatedOnDayIndexOp(F[i - 1], ops[i])
    IN F[Len(ops)]

\* Files scanned at a time between two yields
chunkSize == 2000

\* The loop body over one chunk: files[from + 1 .. to] are pushed on the
\* buckets of next
ScanChunk(next, files, from, to) ==
    LET F[i \in from..to] ==
            IF i = from THEN next
            ELSE LET file == files[i]
                 IN IF ~shouldIndexFile(file) THEN F[i - 1]
                    ELSE IF file.ctime = NoCTime THEN F[i - 1]
                    ELSE
                        LET dateStr == formatLocalDateYYYYMMDD(file.ctime)
                            found == Lookup(F[i - 1], dateStr)
                            bucket == IF found = NullBucket
                                      THEN [notes |-> <<>>, files |-> <<>>]
                                      ELSE found
                        IN IF isNoteLikeFile(file)
                           THEN IndexSet(F[i - 1], dateStr,
                                    [bucket EXCEPT !.notes = Append(@, file)])
                           ELSE IndexSet(F[i - 1], dateStr,
                                    [bucket EXCEPT !.files = Append(@, file)])
    IN F[to]

\* arr.sort((a, b) => a.path.localeCompare(b.path))
SortByPath(arr) ==
    LET Insert(sorted, e) ==
            LET before == {k \in 1..Len(sorted) :
                            localeCompare(e.path, sorted[k].path) < 0}
                pos == IF before = {} THEN Len(sorted) + 1
                       ELSE CHOOSE k \in before : \A j \in before : k <= j
            IN SubSeq(sorted, 1, pos - 1) \o <<e>> \o SubSeq(sorted, pos, Len(sorted))
        F[i \in 0..Len(arr)] ==
            IF i = 0 THEN <<>> ELSE Insert(F[i - 1], arr[i])
    IN F[Len(arr)]

\* The notes and files of every bucket of next are sorted
SortBuckets(next) ==
    Index([i \in 1..Len(next.entries) |->
        [key |-> next.entries[i].key,
         bucket |-> [notes |-> SortByPath(next.entries[i].bucket.notes),
                     files |-> SortByPath(next.entries[i].bucket.files)]]])

\* The orders in which vault.getFiles() lists the files: the model takes the
\* two extremes, by path upwards and by path downwards
FileLists(files) ==
    {fs \in [1..Cardinality(files) -> files] :
        /\ \A i, j \in 1..Len(fs) : i # j => fs[i] # fs[j]
        /\ \/ \A i, j \in 1..Len(fs) :
                    i < j => PathRank(fs[i].path) < PathRank(fs[j].path)
           \/ \A i, j \in 1..Len(fs) :
                    i < j => PathRank(fs[i].path) > PathRank(fs[j].path)}

\* Position of a build: yielding after a chunk, with its token, the files it
\* listed, the index of the chunk and the map filled so far; or returned,
\* its locals gone, with the number of operations it replayed
Build(nonce, at, files, i, next, replayed) ==
    [nonce |-> nonce, at |-> at, files |-> files, i |-> i, next |-> next,
     replayed |-> replayed]

Returned(build, at, replayed) ==
    Build(build.nonce, at, <<>>, 0, Index(<<>>), replayed)

\* Variant: a build is never taken for stale once its scan is over.
StaleAfterScanNever(nonce, current) == FALSE

\* if (nonce !== createdOnDayIndexBuildNonce) after the scan
StaleAfterScan(nonce, current) == nonce # current

\* Variant: an operation is queued whenever the feature is on.
handleCreatedOnDayIndexOpAlwaysQueue(op) ==
    IF ~includeCreatedDays
    THEN UNCHANGED <<createdOnDayIndex, createdOnDayIndexPendingOps>>
    ELSE /\ createdOnDayIndexPendingOps' = Append(createdOnDayIndexPendingOps, op)
         /\ UNCHANGED createdOnDayIndex

handleCreatedOnDayIndexOp(op) ==
    IF ~includeCreatedDays
    THEN UNCHANGED <<createdOnDayIndex, createdOnDayIndexPendingOps>>
    ELSE IF createdOnDayIndexLoading
    THEN /\ createdOnDayIndexPendingOps' = Append(createdOnDayIndexPendingOps, op)
         /\ UNCHANGED createdOnDayIndex
    ELSE IF ~createdOnDayIndexBuiltOnce
    THEN UNCHANGED <<createdOnDayIndex, createdOnDayIndexPendingOps>>
    ELSE /\ createdOnDayIndex' = applyCreatedOnDayIndexOp(createdOnDayIndex, op)
         /\ UNCHANGED createdOnDayIndexPendingOps

\* What no vault event changes
UnchangedByEvent ==
    UNCHANGED <<pc, callVars, computeVars, otherVars, includeCreatedDays, showList,
                prevListViewIncludeCreatedDays, createdOnDayIndexLoading,
                createdOnDayIndexError, createdOnDayIndexBuildNonce,
                createdOnDayIndexBuiltOnce, builds>>

\* A file is created: onVaultCreate
VaultCreate(file) ==
    /\ pc = "index"
    /\ events < MaxEvents
    /\ \A f \in vault : f.path # file.path
    /\ vault' = vault \cup {file}
    /\ handleCreatedOnDayIndexOp(CreateOp(file))
    /\ events' = events + 1
    /\ lastEvent' = "create"
    /\ UnchangedByEvent

\* A file is deleted: onVaultDelete
VaultDelete(file) ==
    /\ pc = "index"
    /\ events < MaxEvents
    /\ file \in vault
    /\ vault' = vault \ {file}
    /\ handleCreatedOnDayIndexOp(DeleteOp(file))
    /\ events' = events + 1
    /\ lastEvent' = "delete"
    /\ UnchangedByEvent

\* A file is renamed or moved: onVaultRename
VaultRename(file, newPath) ==
    /\ pc = "index"
    /\ events < MaxEvents
    /\ file \in vault
    /\ <<file.path, newPath>> \in RenamePairs
    /\ VaultFile(newPath, file.ctime) \in VaultFiles
    /\ \A f \in vault : f.path # newPath
    /\ vault' = (vault \ {file}) \cup {VaultFile(newPath, file.ctime)}
    /\ handleCreatedOnDayIndexOp(RenameOp(VaultFile(newPath, file.ctime), file.path))
    /\ events' = events + 1
    /\ lastEvent' = "rename"
    /\ UnchangedByEvent

\* Variant: the index is left as it is when the setting is turned off.
ResetCreatedOnDayIndexKeepsIndex ==
    /\ createdOnDayIndexBuildNonce' = createdOnDayIndexBuildNonce + 1
    /\ createdOnDayIndexBuiltOnce' = FALSE
    /\ createdOnDayIndexLoading' = FALSE
    /\ createdOnDayIndexError' = Null
    /\ createdOnDayIndexPendingOps' = <<>>
    /\ UNCHANGED <<createdOnDayIndex, builds>>

\* The feature is switched off: the reset of the reactive block
ResetCreatedOnDayIndex ==
    /\ createdOnDayIndexBuildNonce' = createdOnDayIndexBuildNonce + 1
    /\ createdOnDayIndex' = Index(<<>>)
    /\ createdOnDayIndexBuiltOnce' = FALSE
    /\ createdOnDayIndexLoading' = FALSE
    /\ createdOnDayIndexError' = Null
    /\ createdOnDayIndexPendingOps' = <<>>
    /\ UNCHANGED builds

\* rebuildCreatedOnDayIndex() with the feature on and no build loading, up to
\* its first yield, or to its end when the vault has no file
RebuildStart ==
    \E files \in FileLists(vault) :
        LET nonce == createdOnDayIndexBuildNonce + 1
            last == Min(chunkSize, Len(files))
            next == ScanChunk(Index(<<>>), files, 0, last)
        IN /\ createdOnDayIndexBuildNonce' = nonce
           /\ createdOnDayIndexError' = Null
           /\ createdOnDayIndexPendingOps' = <<>>
           /\ IF Len(files) = 0
              THEN /\ createdOnDayIndex' = ReplayPendingOps(SortBuckets(next), <<>>)
                   /\ createdOnDayIndexBuiltOnce' = TRUE
                   /\ createdOnDayIndexLoading' = FALSE
                   /\ builds' = Append(builds,
                                       Build(nonce, "done", <<>>, 0, Index(<<>>), 0))
              ELSE /\ createdOnDayIndexLoading' = TRUE
                   /\ builds' = Append(builds,
                                       Build(nonce, "yield", files, 0, next, 0))
                   /\ UNCHANGED <<createdOnDayIndex, createdOnDayIndexBuiltOnce>>

\* What ensureCreatedOnDayIndexBuilt leaves alone when it starts no build
NoBuild ==
    UNCHANGED <<createdOnDayIndex, createdOnDayIndexLoading,
                createdOnDayIndexError, createdOnDayIndexBuildNonce,
                createdOnDayIndexBuiltOnce, createdOnDayIndexPendingOps, builds>>

\* Variant: a request made while the index is loading starts a second build.
ensureCreatedOnDayIndexBuiltWhileLoading(setting) ==
    IF ~setting THEN NoBuild
    ELSE IF createdOnDayIndexBuiltOnce THEN NoBuild
    ELSE RebuildStart

\* ensureCreatedOnDayIndexBuilt() under the setting given
ensureCreatedOnDayIndexBuilt(setting) ==
    IF ~setting THEN NoBuild
    ELSE IF createdOnDayIndexBuiltOnce \/ createdOnDayIndexLoading THEN NoBuild
    ELSE RebuildStart

\* toggleList: the list is shown or hidden
ToggleList ==
    /\ pc = "index"
    /\ createdOnDayIndexBuildNonce < MaxNonce
    /\ showList' = ~showList
    /\ IF showList'
       THEN ensureCreatedOnDayIndexBuilt(includeCreatedDays)
       ELSE NoBuild
    /\ UNCHANGED <<pc, callVars, computeVars, otherVars, includeCreatedDays, vault,
                   prevListViewIncludeCreatedDays, events, lastEvent>>

\* The setting listViewIncludeCreatedDays is changed, and the reactive block
\* on it runs
SetIncludeCreatedDays(value) ==
    /\ pc = "index"
    /\ createdOnDayIndexBuildNonce < MaxNonce
    /\ value # includeCreatedDays
    /\ includeCreatedDays' = value
    /\ IF showList /\ value /\ prevListViewIncludeCreatedDays = FALSE
       THEN ensureCreatedOnDayIndexBuilt(value)
       ELSE IF ~value /\ prevListViewIncludeCreatedDays = TRUE
       THEN ResetCreatedOnDayIndex
       ELSE NoBuild
    /\ prevListViewIncludeCreatedDays' = value
    /\ UNCHANGED <<pc, callVars, computeVars, otherVars, vault, showList, events,
                   lastEvent>>

\* A build resumes after the yield that follows a chunk
BuildResume(k) ==
    /\ pc = "index"
    /\ k \in 1..Len(builds)
    /\ builds[k].at = "yield"
    /\ LET b == builds[k]
           i == b.i + chunkSize
           stale == b.nonce # createdOnDayIndexBuildNonce
       IN IF i < Len(b.files)
          THEN
            \* the next turn of the loop
            IF stale
            THEN /\ builds' = [builds EXCEPT ![k] = Returned(b, "stale", 0)]
                 /\ UNCHANGED <<createdOnDayIndex, createdOnDayIndexLoading,
                                createdOnDayIndexBuiltOnce,
                                createdOnDayIndexPendingOps>>
            ELSE /\ builds' = [builds EXCEPT
                                ![k].i = i,
                                ![k].next = ScanChunk(b.next, b.files, i,
                                               Min(i + chunkSize, Len(b.files)))]
                 /\ UNCHANGED <<createdOnDayIndex, createdOnDayIndexLoading,
                                createdOnDayIndexBuiltOnce,
                                createdOnDayIndexPendingOps>>
          ELSE
            \* the loop is over: sort, test the token, replay, commit
            LET next == SortBuckets(b.next)
            IN IF StaleAfterScan(b.nonce, createdOnDayIndexBuildNonce)
               THEN /\ builds' = [builds EXCEPT ![k] = Returned(b, "stale", 0)]
                    /\ UNCHANGED <<createdOnDayIndex, createdOnDayIndexLoading,
                                   createdOnDayIndexBuiltOnce,
                                   createdOnDayIndexPendingOps>>
               ELSE /\ createdOnDayIndex' =
                            ReplayPendingOps(next, createdOnDayIndexPendingOps)
                    /\ createdOnDayIndexBuiltOnce' = TRUE
                    /\ builds' = [builds EXCEPT
                                    ![k] = Returned(b, "done",
                                               Len(createdOnDayIndexPendingOps))]
                    /\ IF ~stale
                       THEN /\ createdOnDayIndexLoading' = FALSE
                            /\ createdOnDayIndexPendingOps' = <<>>
                       ELSE UNCHANGED <<createdOnDayIndexLoading,
                                        createdOnDayIndexPendingOps>>
    /\ UNCHANGED <<pc, callVars, computeVars, otherVars, includeCreatedDays, vault, showList,
                   prevListViewIncludeCreatedDays, createdOnDayIndexError,
                   createdOnDayIndexBuildNonce, events, lastEvent>>

\* Variant: the catch block publishes what the build had scanned.
IndexAfterErrorKeepsScan(build) == build.next

\* createdOnDayIndex = {} of the catch block
IndexAfterError(build) == Index(<<>>)

\* A build throws after a yield: the catch and finally blocks
BuildThrows(k) ==
    /\ pc = "index"
    /\ k \in 1..Len(builds)
    /\ builds[k].at = "yield"
    /\ IF builds[k].nonce # createdOnDayIndexBuildNonce
       THEN /\ builds' = [builds EXCEPT ![k] = Returned(builds[k], "stale", 0)]
            /\ UNCHANGED <<createdOnDayIndex, createdOnDayIndexLoading,
                           createdOnDayIndexError, createdOnDayIndexBuiltOnce,
                           createdOnDayIndexPendingOps>>
       ELSE /\ createdOnDayIndexError' = ErrorMessage
            /\ createdOnDayIndex' = IndexAfterError(builds[k])
            /\ createdOnDayIndexBuiltOnce' = TRUE
            /\ createdOnDayIndexLoading' = FALSE
            /\ createdOnDayIndexPendingOps' = <<>>
            /\ builds' = [builds EXCEPT ![k] = Returned(builds[k], "failed", 0)]
    /\ UNCHANGED <<pc, callVars, computeVars, otherVars, includeCreatedDays, vault, showList,
                   prevListViewIncludeCreatedDays, createdOnDayIndexBuildNonce,
                   events, lastEvent>>

\* The vaults of at most n files
Vaults(n) ==
    {v \in SUBSET VaultFiles :
        /\ Cardinality(v) <= n
        /\ \A f, g \in v : f.path = g.path => f = g}

InitIndex ==
    /\ pc = "index"
    /\ dailyNoteCandidates = <<>>
    /\ createdOnDayIndex = Index(<<>>)
    /\ includeCreatedDays \in BOOLEAN
    /\ sortOrder = "desc"
    /\ locale = "en"
    /\ preset = "year"
    /\ items = <<>>
    /\ groups = <<>>
    /\ today = NotPassed
    /\ idPath = <<>>
    /\ dailyNotes = {}
    /\ listViewMinWords = 0
    /\ ComputeIdle
    /\ vault \in Vaults(1)
    /\ showList = FALSE
    /\ prevListViewIncludeCreatedDays = includeCreatedDays
    /\ IndexIdle
    /\ OthersIdle

NextIndex ==
    \/ \E file \in VaultFiles : VaultCreate(file)
    \/ \E file \in VaultFiles : VaultDelete(file)
    \/ \E file \in VaultFiles, i \in 1..Len(Paths) : VaultRename(file, Paths[i])
    \/ ToggleList
    \/ \E value \in BOOLEAN : SetIncludeCreatedDays(value)
    \/ \E k \in 1..MaxNonce : BuildResume(k)
    \/ \E k \in 1..MaxNonce : BuildThrows(k)

SpecIndex == InitIndex /\ [][NextIndex]_vars

\* A build waits at a yield: its timer is pending
Yielded(k) == pc = "index" /\ k \in 1..Len(builds) /\ builds[k].at = "yield"

\* The steps of the index with at most MaxFairEvents vault notifications
NextIndexFair == NextIndex /\ events' <= MaxFairEvents

\* The timer of a yield fires: a build that waits at a yield resumes in the
\* end.  This is WF_builds(BuildResume(k)) written out: a resumption always
\* changes builds[k], so ENABLED <<BuildResume(k)>>_builds is Yielded(k)
SpecIndexFair ==
    /\ InitIndex
    /\ [][NextIndexFair]_vars
    /\ \A k \in 1..MaxNonce : []<>~Yielded(k) \/ []<><<BuildResume(k)>>_builds

----------------------------------------------------------------------------
(* applyCreatedOnDayIndexOp called on its own *)

\* The files an operation may carry: any path, created on either day or
\* without a creation time
OpFiles ==
    {VaultFile(Paths[i], c) : i \in 1..Len(Paths), c \in {NoCTime, Day13, Day14}}

\* The operations: a create or a delete of any file, a rename of any file
\* from any other path or from the empty string that onVaultRename passes
\* for an old path that is not a string
OpArgs ==
    {CreateOp(f) : f \in OpFiles}
    \cup {DeleteOp(f) : f \in OpFiles}
    \cup {RenameOp(f, Paths[i]) : f \in OpFiles, i \in 1..Len(Paths)}
    \cup {RenameOp(f, "") : f \in OpFiles}

\* The buckets of one day: notes and files in path order, not both empty
DayBuckets(ctime) ==
    {[notes |-> ns, files |-> fs] :
        ns \in {<<>>, <<VaultFile("a.md", ctime)>>, <<VaultFile("b.canvas", ctime)>>,
                <<VaultFile("a.md", ctime), VaultFile("b.canvas", ctime)>>},
        fs \in {<<>>, <<VaultFile("c.png", ctime)>>}}
    \ {[notes |-> <<>>, files |-> <<>>]}

DayEntries ==
    {[key |-> "2025-12-13", bucket |-> b] : b \in DayBuckets(Day13)}
    \cup {[key |-> "2025-12-14", bucket |-> b] : b \in DayBuckets(Day14)}

\* The indexes an operation is applied to: no day, one day, or both days in
\* either order of insertion; a path may be listed under both days
OpIndexes ==
    {Index(<<>>)}
    \cup {Index(<<e>>) : e \in DayEntries}
    \cup {Index(<<d, e>>) : <<d, e>> \in {x \in DayEntries \X DayEntries :
                                            x[1].key # x[2].key}}

InitApply ==
    /\ pc = "apply"
    /\ dailyNoteCandidates = <<>>
    /\ createdOnDayIndex \in OpIndexes
    /\ includeCreatedDays = TRUE
    /\ sortOrder = "desc"
    /\ locale = "en"
    /\ preset = "year"
    /\ items = <<>>
    /\ groups = <<>>
    /\ today = NotPassed
    /\ idPath = <<>>
    /\ dailyNotes = {}
    /\ listViewMinWords = 0
    /\ ComputeIdle
    /\ vault = {}
    /\ showList = FALSE
    /\ prevListViewIncludeCreatedDays = includeCreatedDays
    /\ IndexIdle
    /\ opArg \in OpArgs
    /\ nextIndex = Null
    /\ viewState = defaultViewState
    /\ TimersIdle
    /\ MetricsIdle

ApplyCreatedOnDayIndexOp ==
    /\ pc = "apply"
    /\ nextIndex' = applyCreatedOnDayIndexOp(createdOnDayIndex, opArg)
    /\ pc' = "applied"
    /\ UNCHANGED <<callVars, computeVars, indexVars, createdOnDayIndex,
                   includeCreatedDays, opArg, viewState, timerVars,
                   metricsVars>>

NextApply == ApplyCreatedOnDayIndexOp

SpecApply == InitApply /\ [][NextApply]_vars

----------------------------------------------------------------------------
(* The persisted view state of main.ts *)

MAX_GROUP_KEYS == 20000
MAX_DAY_KEYS == 50000

\* isRecord: !!value && typeof value === "object" && !Array.isArray(value)
isRecord(value) == value.t = "object"

\* obj[key] of an object given by its entries
Get(obj, key) ==
    LET hits == {i \in 1..Len(obj.entries) : obj.entries[i].key = key}
    IN IF hits = {} THEN JSUndefined
       ELSE obj.entries[CHOOSE i \in hits : TRUE].v

\* Variant: the loop never stops at maxKeys.
sanitizeBooleanMapUncapped(raw, maxKeys) ==
    IF ~isRecord(raw) THEN JSObject(<<>>)
    ELSE LET es == raw.entries
             F[i \in 0..Len(es)] ==
                IF i = 0 THEN <<>>
                ELSE IF es[i].key # "" /\ es[i].v.t = "boolean"
                     THEN Append(F[i - 1], es[i])
                ELSE F[i - 1]
         IN JSObject(F[Len(es)])

\* sanitizeBooleanMap: the loop over Object.entries(raw), run by run; of a
\* run of boolean entries the loop takes those that come before count
\* reaches maxKeys
sanitizeBooleanMap(raw, maxKeys) ==
    IF ~isRecord(raw) THEN JSObject(<<>>)
    ELSE LET es == raw.entries
             F[i \in 0..Len(es)] ==
                IF i = 0 THEN [out |-> <<>>, count |-> 0]
                ELSE LET prev == F[i - 1]
                         e == es[i]
                         taken == Min(e.n, maxKeys - prev.count)
                     IN IF prev.count >= maxKeys THEN prev
                        ELSE IF e.key = "" THEN prev
                        ELSE IF e.v.t = "boolean"
                        THEN [out |-> Append(prev.out, Entries(taken, e.key, e.v)),
                              count |-> prev.count + taken]
                        ELSE prev
         IN JSObject(F[Len(es)].out)

\* The strings of the model and String.prototype.trim on them
MonthStrings == {"2025-12-01", " 2025-12-01 ", "  ", ""}

trim(str) ==
    CASE str = " 2025-12-01 " -> "2025-12-01"
      [] str = "  " -> ""
      [] OTHER -> str

\* The entries of dayOpenStateRaw whose value is true
OnlyTrue(map) ==
    LET es == map.entries
        F[i \in 0..Len(es)] ==
            IF i = 0 THEN <<>>
            ELSE IF es[i].v = JSBoolean(TRUE) THEN Append(F[i - 1], es[i])
            ELSE F[i - 1]
    IN JSObject(F[Len(es)])

\* { files: true }
FilesTrue == JSObject(<<Entries(1, "files", JSBoolean(TRUE))>>)

\* The loop that fills dayChildOpenState
sanitizeDayChildOpenState(raw) ==
    IF ~isRecord(raw) THEN JSObject(<<>>)
    ELSE LET es == raw.entries
             F[i \in 0..Len(es)] ==
                IF i = 0 THEN [out |-> <<>>, count |-> 0]
                ELSE LET prev == F[i - 1]
                         e == es[i]
                         taken == Min(e.n, MAX_DAY_KEYS - prev.count)
                     IN IF prev.count >= MAX_DAY_KEYS THEN prev
                        ELSE IF e.key = "" THEN prev
                        ELSE IF ~isRecord(e.v) THEN prev
                        ELSE IF Get(e.v, "files") # JSBoolean(TRUE) THEN prev
                        ELSE [out |-> Append(prev.out,
                                             Entries(taken, e.key, FilesTrue)),
                              count |-> prev.count + taken]
         IN JSObject(F[Len(es)].out)

sanitizeCalendarViewState(raw) ==
    IF ~isRecord(raw) THEN defaultViewState
    ELSE LET sl == IF raw.showList.t = "boolean" THEN raw.showList
                   ELSE JSBoolean(FALSE)
             dm == IF raw.displayedMonth.t = "string"
                        /\ trim(raw.displayedMonth.v) # ""
                   THEN JSString(trim(raw.displayedMonth.v))
                   ELSE JSNull
             gos == sanitizeBooleanMap(raw.groupOpenState, MAX_GROUP_KEYS)
             dayOpenStateRaw == sanitizeBooleanMap(raw.dayOpenState, MAX_DAY_KEYS)
         IN ViewState(sl, dm, gos, OnlyTrue(dayOpenStateRaw),
                      sanitizeDayChildOpenState(raw.dayChildOpenState))

\* {...viewState, ...partial}
Merge(vs, partial) ==
    [f \in DOMAIN vs |-> IF f \in DOMAIN partial THEN partial[f] ELSE vs[f]]

\* Values that are no record
NonRecords == {JSUndefined, JSNull, JSArray, JSString("true")}

\* The values of the entries of a map in data.json: booleans, a string,
\* objects with and without a true files flag
EntryValues ==
    {JSBoolean(TRUE), JSBoolean(FALSE), JSString("true"), FilesTrue,
     JSObject(<<Entries(1, "files", JSBoolean(FALSE))>>),
     JSObject(<<Entries(1, "files", JSString("true"))>>)}

\* Runs of one entry and runs as long as the greater cap, and an entry under
\* the empty key
RawEntries ==
    {Entries(n, "k", v) : n \in {1, MAX_DAY_KEYS}, v \in EntryValues}
    \cup {Entries(1, "", v) : v \in {JSBoolean(TRUE), FilesTrue}}

\* An object has each key once: the empty key comes in one run at most
RawObjects(n) ==
    UNION {{JSObject(es) : es \in
                {x \in [1..m -> RawEntries] :
                    Cardinality({i \in 1..m : x[i].key = ""}) <= 1}} :
           m \in 0..n}

\* What data.json holds in place of a map
RawMaps == NonRecords \cup RawObjects(MaxBlocks)

RawShowLists == {JSBoolean(TRUE), JSBoolean(FALSE), JSString("true"), JSUndefined}

RawMonths == {JSString(str) : str \in MonthStrings} \cup {JSNull, JSNumber}

\* What data.json holds as viewState: no record, or a record whose three
\* maps are alike
RawViewStates ==
    NonRecords \cup
    {ViewState(sl, dm, m, m, m) :
        sl \in RawShowLists, dm \in RawMonths, m \in RawMaps}

\* The arguments of updateViewState: one property of the state, a map of one
\* run at most
Partials ==
    {[showList |-> sl] : sl \in RawShowLists}
    \cup {[displayedMonth |-> dm] : dm \in RawMonths}
    \cup UNION {{[groupOpenState |-> m], [dayOpenState |-> m],
                 [dayChildOpenState |-> m]} :
                m \in NonRecords \cup RawObjects(1)}
    \cup {[k \in {} |-> JSUndefined]}

\* The plugin as constructed: this.data.viewState = {...defaultViewState}
InitViewState ==
    /\ pc = "plugin"
    /\ dailyNoteCandidates = <<>>
    /\ createdOnDayIndex = Index(<<>>)
    /\ includeCreatedDays = TRUE
    /\ sortOrder = "desc"
    /\ locale = "en"
    /\ preset = "year"
    /\ items = <<>>
    /\ groups = <<>>
    /\ today = [y |-> 2025, m |-> 12, d |-> 13]
    /\ idPath = <<>>
    /\ dailyNotes = {}
    /\ listViewMinWords = 0
    /\ ComputeIdle
    /\ vault = {}
    /\ showList = FALSE
    /\ prevListViewIncludeCreatedDays = includeCreatedDays
    /\ IndexIdle
    /\ OthersIdle

\* What loadOptions and updateViewState leave alone
UnchangedByPlugin ==
    /\ UNCHANGED <<dailyNoteCandidates, createdOnDayIndex, includeCreatedDays,
                   sortOrder, locale, preset, items, groups, today, idPath>>
    /\ UNCHANGED <<computeVars, indexVars, opArg, nextIndex, timerVars,
                   metricsVars>>

\* loadOptions: viewState: sanitizeCalendarViewState(viewStateData)
LoadOptions(raw) ==
    /\ pc = "plugin"
    /\ raw \in RawViewStates
    /\ viewState' = sanitizeCalendarViewState(raw)
    /\ pc' = "loaded"
    /\ UnchangedByPlugin

\* updateViewState(partial), once the options are loaded
UpdateViewState(partial) ==
    /\ pc = "loaded"
    /\ partial \in Partials
    /\ viewState' = sanitizeCalendarViewState(Merge(viewState, partial))
    /\ UNCHANGED pc
    /\ UnchangedByPlugin

NextViewState ==
    \/ \E raw \in RawViewStates : LoadOptions(raw)
    \/ \E partial \in Partials : UpdateViewState(partial)

SpecViewState == InitViewState /\ [][NextViewState]_vars

----------------------------------------------------------------------------
(* Specification *)

\* The variables of the component are at rest while a function of
\* listViewModel.ts is called on its own
ComponentIdle ==
    /\ dailyNotes = {}
    /\ listViewMinWords = 0
    /\ ComputeIdle
    /\ vault = {}
    /\ showList = FALSE
    /\ prevListViewIncludeCreatedDays = includeCreatedDays
    /\ IndexIdle
    /\ OthersIdle

InitMerge ==
    /\ pc = "merge"
    /\ \E n \in 0..MaxCands :
        /\ dailyNoteCandidates \in CandidateLists(n)
        /\ createdOnDayIndex \in Indexes(MaxInputs - n)
    /\ includeCreatedDays \in BOOLEAN
    /\ sortOrder \in SortOrders
    /\ locale = "en"
    /\ preset = "year"
    /\ items = <<>>
    /\ groups = <<>>
    /\ today = NotPassed
    /\ idPath = <<>>

InitGroup ==
    /\ pc = "group"
    /\ dailyNoteCandidates = <<>>
    /\ createdOnDayIndex = Index(<<>>)
    /\ includeCreatedDays = TRUE
    /\ sortOrder \in SortOrders
    /\ locale \in Locales
    /\ preset \in Presets
    /\ items \in ItemLists
    /\ groups = <<>>
    /\ today = NotPassed
    /\ idPath = <<>>

InitPath ==
    /\ pc = "path"
    /\ dailyNoteCandidates = <<>>
    /\ createdOnDayIndex = Index(<<>>)
    /\ includeCreatedDays = TRUE
    /\ sortOrder = "desc"
    /\ locale \in Locales
    /\ preset \in Presets
    /\ items = <<>>
    /\ groups = <<>>
    /\ today \in Dates
    /\ idPath = <<>>

Init == (InitMerge \/ InitGroup \/ InitPath) /\ ComponentIdle

BuildListItems ==
    /\ pc = "merge"
    /\ items' = buildListItems(dailyNoteCandidates, createdOnDayIndex,
                               includeCreatedDays, sortOrder)
    /\ pc' = "merged"
    /\ UNCHANGED <<dailyNoteCandidates, createdOnDayIndex, includeCreatedDays,
                   sortOrder, locale, preset, groups, today, idPath,
                   computeVars, indexVars,
                   otherVars>>

BuildListGroups ==
    /\ pc = "group"
    /\ groups' = buildListGroups(items, preset, sortOrder, locale)
    /\ pc' = "grouped"
    /\ UNCHANGED <<dailyNoteCandidates, createdOnDayIndex, includeCreatedDays,
                   sortOrder, locale, preset, items, today, idPath,
                   computeVars, indexVars,
                   otherVars>>

GetListGroupIdPathForDate ==
    /\ pc = "path"
    /\ idPath' = getListGroupIdPathForDate(today, preset, locale)
    /\ pc' = "pathed"
    /\ UNCHANGED <<dailyNoteCandidates, createdOnDayIndex, includeCreatedDays,
                   sortOrder, locale, preset, items, groups, today,
                   computeVars, indexVars,
                   otherVars>>

Next == BuildListItems \/ BuildListGroups \/ GetListGroupIdPathForDate

Spec == Init /\ [][Next]_vars

----------------------------------------------------------------------------
(* The timers that debounce the recomputation of the list: view.ts and     *)
(* Calendar.svelte                                                         *)

\* view.ts: private static readonly CALENDAR_REFRESH_DEBOUNCE_MS
CALENDAR_REFRESH_DEBOUNCE_MS == 200

\* Calendar.svelte: const LIST_RECOMPUTE_DEBOUNCE_MS
LIST_RECOMPUTE_DEBOUNCE_MS == 750

\* A timeout pending in the window: its handle, its callback and when it is due
Timeout(id, fn, at) == [id |-> id, fn |-> fn, at |-> at]

\* Variant: the pending timeout is not cancelled.
clearTimeoutKeeps(pending, id) == pending

\* window.clearTimeout(id)
clearTimeout(pending, id) == {t \in pending : t.id # id}

\* The timeouts of the recompute timer and of the list refresh timer
ComputeTimeouts(pending) == {t \in pending : t.fn = "listCompute"}

RefreshTimeouts(pending) == {t \in pending : t.fn = "listRefresh"}

\* scheduleListRecompute() with these timeouts pending: nothing when the list
\* is hidden; else the pending recompute timer is cancelled and a new one set
scheduleListRecompute(pending) ==
    /\ lastRequest' =
            [at |-> now, shown |-> showList,
             visibleAt |-> IF showList THEN now ELSE lastRequest.visibleAt,
             burst |-> IF ~showList THEN lastRequest.burst
                       ELSE IF listComputeTimer # NoTimer
                       THEN lastRequest.burst + 1
                       ELSE 1]
    /\ IF ~showList
       THEN /\ timeouts' = pending
            /\ UNCHANGED <<listComputeTimer, lastTimerId>>
       ELSE LET cleared == IF listComputeTimer # NoTimer
                           THEN clearTimeout(pending, listComputeTimer)
                           ELSE pending
                id == lastTimerId + 1
            IN /\ lastTimerId' = id
               /\ listComputeTimer' = id
               /\ timeouts' = cleared \cup
                        {Timeout(id, "listCompute",
                                 now + LIST_RECOMPUTE_DEBOUNCE_MS)}

UnchangedByTimers ==
    /\ UNCHANGED <<pc, dailyNoteCandidates, createdOnDayIndex, includeCreatedDays,
                   callVars, computeVars>>
    /\ UNCHANGED <<vault, prevListViewIncludeCreatedDays,
                   createdOnDayIndexLoading, createdOnDayIndexError,
                   createdOnDayIndexBuildNonce, createdOnDayIndexBuiltOnce,
                   createdOnDayIndexPendingOps, builds, events, lastEvent>>
    /\ UNCHANGED <<opArg, nextIndex, viewState, metricsVars>>

\* Handles left for the timeouts that the pending refresh timers will set
HandlesLeft ==
    MaxTimers - lastTimerId - Cardinality(RefreshTimeouts(timeouts))

\* The component asks for a recomputation: the vault handlers and the
\* reactive blocks of Calendar.svelte
ScheduleListRecompute ==
    /\ pc = "timers"
    /\ HandlesLeft > 0
    /\ scheduleListRecompute(timeouts)
    /\ UNCHANGED <<now, showList, listRefreshTimer, computeCalls>>
    /\ UnchangedByTimers

\* The callback of the recompute timer: computeList starts
ListComputeTimerFires(t) ==
    /\ pc = "timers"
    /\ t \in ComputeTimeouts(timeouts)
    /\ t.at <= now
    /\ timeouts' = timeouts \ {t}
    /\ listComputeTimer' = NoTimer
    /\ computeCalls' = Append(computeCalls, "timer")
    /\ UNCHANGED <<now, showList, lastTimerId, listRefreshTimer, lastRequest>>
    /\ UnchangedByTimers

\* view.ts scheduleListRefresh(): a daily note was modified
ScheduleListRefresh ==
    /\ pc = "timers"
    /\ HandlesLeft > 1
    /\ LET cleared == IF listRefreshTimer # NoTimer
                      THEN clearTimeout(timeouts, listRefreshTimer)
                      ELSE timeouts
           id == lastTimerId + 1
       IN /\ lastTimerId' = id
          /\ listRefreshTimer' = id
          /\ timeouts' = cleared \cup
                {Timeout(id, "listRefresh", now + CALENDAR_REFRESH_DEBOUNCE_MS)}
    /\ UNCHANGED <<now, showList, listComputeTimer, computeCalls, lastRequest>>
    /\ UnchangedByTimers

\* The callback of the list refresh timer: requestListRefresh(), which is
\* scheduleListRecompute()
ListRefreshTimerFires(t) ==
    /\ pc = "timers"
    /\ t \in RefreshTimeouts(timeouts)
    /\ t.at <= now
    /\ listRefreshTimer' = NoTimer
    /\ scheduleListRecompute(timeouts \ {t})
    /\ UNCHANGED <<now, showList, computeCalls>>
    /\ UnchangedByTimers

\* toggleList(): the list is shown or hidden; computeList starts at once when
\* it is shown, and a pending timer is left alone
ToggleListTimers ==
    /\ pc = "timers"
    /\ showList' = ~showList
    /\ IF ~showList
       THEN /\ Len(computeCalls) < MaxCalls
            /\ computeCalls' = Append(computeCalls, "toggle")
       ELSE UNCHANGED computeCalls
    /\ UNCHANGED <<now, timeouts, lastTimerId, listComputeTimer,
                   listRefreshTimer, lastRequest>>
    /\ UnchangedByTimers

\* Time passes, by the shorter window or up to the timeout due next; a
\* timeout that is due fires before time passes
Advance(d) ==
    /\ pc = "timers"
    /\ d > 0
    /\ now + d <= MaxClock
    /\ \A t \in timeouts : now + d <= t.at
    /\ now' = now + d
    /\ UNCHANGED <<showList, timeouts, lastTimerId, listComputeTimer,
                   listRefreshTimer, computeCalls, lastRequest>>
    /\ UnchangedByTimers

\* The amounts by which time passes
Delays ==
    {CALENDAR_REFRESH_DEBOUNCE_MS} \cup {t.at - now : t \in timeouts}

InitTimers ==
    /\ pc = "timers"
    /\ dailyNoteCandidates = <<>>
    /\ createdOnDayIndex = Index(<<>>)
    /\ includeCreatedDays = TRUE
    /\ sortOrder = "desc"
    /\ locale = "en"
    /\ preset = "year"
    /\ items = <<>>
    /\ groups = <<>>
    /\ today = [y |-> 2025, m |-> 12, d |-> 13]
    /\ idPath = <<>>
    /\ dailyNotes = {}
    /\ listViewMinWords = 0
    /\ ComputeIdle
    /\ vault = {}
    /\ showList \in BOOLEAN
    /\ prevListViewIncludeCreatedDays = includeCreatedDays
    /\ IndexIdle
    /\ OthersIdle

NextTimers ==
    \/ ScheduleListRecompute
    \/ \E t \in timeouts : ListComputeTimerFires(t)
    \/ ScheduleListRefresh
    \/ \E t \in timeouts : ListRefreshTimerFires(t)
    \/ ToggleListTimers
    \/ \E d \in Delays : Advance(d)

SpecTimers == InitTimers /\ [][NextTimers]_vars

----------------------------------------------------------------------------
(* The metrics cache of src/src/ui/noteMetrics.ts                          *)
(*                                                                         *)
(* The Map cache is the sequence of its entries in insertion order.  The   *)
(* entries of the notes that are not asked for again are kept as one       *)
(* entry with their number n, so that the cache can be full.  A value      *)
(* records the mtime it was computed for and the mtime of the content      *)
(* that was read.  The mtime of a note only grows.                         *)

\* const MAX_ENTRIES
MAX_ENTRIES == 2000

\* An entry of cache for a path, and n entries of other paths
CacheEntry(key, mtime, value) ==
    [key |-> key, mtime |-> mtime, value |-> value, n |-> 1]

OtherEntries(n) == [key |-> "*", mtime |-> 0, value |-> NoValue, n |-> n]

\* cache.size
CacheSize(c) ==
    LET F[i \in 0..Len(c)] == IF i = 0 THEN 0 ELSE F[i - 1] + c[i].n
    IN F[Len(c)]

\* Position of the entry of a key, 0 when cache.get(key) is undefined
CachePosition(c, key) ==
    LET hits == {i \in 1..Len(c) : c[i].key = key}
    IN IF hits = {} THEN 0 ELSE CHOOSE i \in hits : TRUE

\* cache.delete(key)
CacheDelete(c, key) == SelectSeq(c, LAMBDA e : e.key # key)

\* cache.set(key, entry): the entry of a key that is present is replaced
\* where it is, a new key is added at the end
CacheSet(c, key, entry) ==
    IF CachePosition(c, key) # 0
    THEN [c EXCEPT ![CachePosition(c, key)] = entry]
    ELSE Append(c, entry)

\* touch: recency is refreshed by reinserting
touch(c, key, entry) == CacheSet(CacheDelete(c, key), key, entry)

\* prune: the oldest keys are deleted while cache.size > MAX_ENTRIES
RECURSIVE prune(_)
prune(c) ==
    IF CacheSize(c) <= MAX_ENTRIES \/ c = <<>> THEN c
    ELSE LET excess == CacheSize(c) - MAX_ENTRIES
         IN IF c[1].n > excess
            THEN [c EXCEPT ![1].n = c[1].n - excess]
            ELSE prune(Tail(c))

\* The keys of a cache
CacheKeys(c) == {c[i].key : i \in 1..Len(c)}

\* A key is used: it becomes the most recently used one
Use(order, key) == SelectSeq(order, LAMBDA k : k # key) \o <<key>>

\* A computation: the promise of line 82, with the path and the mtime of the
\* call that started it
Computation(key, mtime, state) == [key |-> key, mtime |-> mtime, state |-> state]

\* Variant: an entry of the cache is reused whatever its mtime.
CacheHitAnyMtime(cached, mtime) == TRUE

\* cached.mtime === mtime
CacheHit(cached, mtime) == cached.mtime = mtime

\* Variant: the finally block clears the entry of inFlight whoever set it.
StillCurrentAlways(cur, mtime, promise) == TRUE

\* cur?.mtime === mtime && cur.promise === promise
StillCurrent(cur, mtime, promise) == cur.mtime = mtime /\ cur.promise = promise

UnchangedByMetrics ==
    /\ UNCHANGED <<pc, dailyNoteCandidates, createdOnDayIndex, includeCreatedDays,
                   callVars, computeVars, indexVars>>
    /\ UNCHANGED <<opArg, nextIndex, viewState, timerVars>>

\* getNoteMetrics(file) for a file with a path, up to its return or its await
GetNoteMetrics(key) ==
    /\ pc = "metrics"
    /\ LET mtime == fileMtime[key]
           pos == CachePosition(cache, key)
           inflight == inFlight[key]
       IN IF pos # 0 /\ CacheHit(cache[pos], mtime)
          THEN /\ cache' = touch(cache, key, cache[pos])
               /\ recency' = Use(recency, key)
               /\ lastCall' = [key |-> key, mtime |-> mtime, how |-> "hit",
                               promise |-> 0, value |-> cache[pos].value]
               /\ UNCHANGED <<inFlight, promises>>
          ELSE IF inflight.promise # 0 /\ inflight.mtime = mtime
          THEN /\ lastCall' = [key |-> key, mtime |-> mtime, how |-> "joined",
                               promise |-> inflight.promise, value |-> NoValue]
               /\ UNCHANGED <<cache, recency, inFlight, promises>>
          ELSE /\ Len(promises) < MaxReads
               /\ promises' = Append(promises,
                                     Computation(key, mtime, "reading"))
               /\ inFlight' = [inFlight EXCEPT
                                 ![key] = [mtime |-> mtime,
                                           promise |-> Len(promises) + 1]]
               /\ lastCall' = [key |-> key, mtime |-> mtime, how |-> "started",
                               promise |-> Len(promises) + 1, value |-> NoValue]
               /\ UNCHANGED <<cache, recency>>
    /\ UNCHANGED fileMtime
    /\ UnchangedByMetrics

\* vault.cachedRead resolves with the content the file had at some moment of
\* the read: the callback of then stores the entry and prunes
ReadResolves(id, content) ==
    /\ pc = "metrics"
    /\ id \in 1..Len(promises)
    /\ promises[id].state = "reading"
    /\ content \in promises[id].mtime..fileMtime[promises[id].key]
    /\ LET c == promises[id]
           value == [mtime |-> c.mtime, content |-> content]
           next == prune(CacheSet(cache, c.key, CacheEntry(c.key, c.mtime, value)))
       IN /\ cache' = next
          /\ recency' = SelectSeq(Use(recency, c.key),
                                  LAMBDA k : k \in CacheKeys(next))
          /\ promises' = [promises EXCEPT ![id].state = "resolved"]
    /\ UNCHANGED <<fileMtime, inFlight, lastCall>>
    /\ UnchangedByMetrics

\* The finally block of the call that started the computation id
FinallyBlock(id) ==
    LET c == promises[id]
    IN IF StillCurrent(inFlight[c.key], c.mtime, id)
       THEN [inFlight EXCEPT ![c.key] = NoFlight]
       ELSE inFlight

\* vault.cachedRead is rejected: the callback of then does not run, and the
\* await of line 92 throws into the finally block
ReadRejects(id) ==
    /\ pc = "metrics"
    /\ id \in 1..Len(promises)
    /\ promises[id].state = "reading"
    /\ inFlight' = FinallyBlock(id)
    /\ promises' = [promises EXCEPT ![id].state = "returned"]
    /\ UNCHANGED <<fileMtime, cache, recency, lastCall>>
    /\ UnchangedByMetrics

\* The call that started the computation resumes after its await: the
\* finally block
Finally(id) ==
    /\ pc = "metrics"
    /\ id \in 1..Len(promises)
    /\ promises[id].state = "resolved"
    /\ inFlight' = FinallyBlock(id)
    /\ promises' = [promises EXCEPT ![id].state = "returned"]
    /\ UNCHANGED <<fileMtime, cache, recency, lastCall>>
    /\ UnchangedByMetrics

\* A note is modified: its mtime moves on
Modify(key) ==
    /\ pc = "metrics"
    /\ fileMtime[key] < MaxStamp
    /\ fileMtime' = [fileMtime EXCEPT ![key] = @ + 1]
    /\ UNCHANGED <<cache, recency, inFlight, promises, lastCall>>
    /\ UnchangedByMetrics

\* The caches of the start: empty, one short of full with other notes, and
\* full with a.md read first and other notes after it up to the limit
InitCaches ==
    {<<>>,
     <<OtherEntries(MAX_ENTRIES - 1)>>,
     <<CacheEntry("a.md", 1, [mtime |-> 1, content |-> 1]),
       OtherEntries(MAX_ENTRIES - 1)>>}

InitMetrics ==
    /\ pc = "metrics"
    /\ dailyNoteCandidates = <<>>
    /\ createdOnDayIndex = Index(<<>>)
    /\ includeCreatedDays = TRUE
    /\ sortOrder = "desc"
    /\ locale = "en"
    /\ preset = "year"
    /\ items = <<>>
    /\ groups = <<>>
    /\ today = [y |-> 2025, m |-> 12, d |-> 13]
    /\ idPath = <<>>
    /\ dailyNotes = {}
    /\ listViewMinWords = 0
    /\ ComputeIdle
    /\ vault = {}
    /\ showList = FALSE
    /\ prevListViewIncludeCreatedDays = includeCreatedDays
    /\ IndexIdle
    /\ opArg = Null
    /\ nextIndex = Null
    /\ viewState = defaultViewState
    /\ TimersIdle
    /\ fileMtime = [p \in MetricsPaths |-> 1]
    /\ cache \in InitCaches
    /\ recency = [i \in 1..Len(cache) |-> cache[i].key]
    /\ inFlight = [p \in MetricsPaths |-> NoFlight]
    /\ promises = <<>>
    /\ lastCall = NoCall

NextMetrics ==
    \/ \E key \in MetricsPaths : GetNoteMetrics(key)
    \/ \E id \in 1..MaxReads, content \in 1..MaxStamp : ReadResolves(id, content)
    \/ \E id \in 1..MaxReads : ReadRejects(id)
    \/ \E id \in 1..MaxReads : Finally(id)
    \/ \E key \in MetricsPaths : Modify(key)

SpecMetrics == InitMetrics /\ [][NextMetrics]_vars

----------------------------------------------------------------------------
(* Vocabulary of the properties of buildListItems *)

\* The dateStr of every calendar day
DayStrs == {formatYMD(dt) : dt \in Dates}

\* Positions of the candidates of a day
CandsOn(d) ==
    {i \in 1..Len(dailyNoteCandidates) : dailyNoteCandidates[i].dateStr = d}

\* The retained candidate of a day: greatest mtime, the earliest on a tie
Retained(d) ==
    dailyNoteCandidates[
        CHOOSE i \in CandsOn(d) :
            \A j \in CandsOn(d) :
                \/ dailyNoteCandidates[j].mtime < dailyNoteCandidates[i].mtime
                \/ /\ dailyNoteCandidates[j].mtime = dailyNoteCandidates[i].mtime
                   /\ i <= j]

DailyNoteQualifies(d) == CandsOn(d) # {} /\ Retained(d).qualifies

\* The notes and files of the day's bucket in the index passed in
BucketNotes(d) ==
    IF createdOnDayIndex = NullIndex THEN <<>>
    ELSE LET es == createdOnDayIndex.entries
             hits == {i \in 1..Len(es) : es[i].key = d}
         IN IF hits = {} THEN <<>> ELSE es[CHOOSE i \in hits : TRUE].bucket.notes

BucketFiles(d) ==
    IF createdOnDayIndex = NullIndex THEN <<>>
    ELSE LET es == createdOnDayIndex.entries
             hits == {i \in 1..Len(es) : es[i].key = d}
         IN IF hits = {} THEN <<>> ELSE es[CHOOSE i \in hits : TRUE].bucket.files

HasCreatedItems(d) ==
    includeCreatedDays /\ (Len(BucketNotes(d)) > 0 \/ Len(BucketFiles(d)) > 0)

\* Positions of the items of a day in the result
ItemsOn(d) == {i \in 1..Len(items) : items[i].dateStr = d}

----------------------------------------------------------------------------
(* Properties of buildListItems *)

\* C1: a day is in the result of buildListItems if its retained daily-note
\* candidate qualifies, or if includeCreatedDays is enabled and the day's
\* bucket holds at least one note or file.
C1_DayIncluded ==
    pc = "merged" =>
        \A d \in DayStrs :
            (DailyNoteQualifies(d) \/ HasCreatedItems(d)) => ItemsOn(d) # {}

\* One day is in the result through its qualifying daily note alone, another
\* through its created items alone.
C1_Witness ==
    /\ pc = "merged"
    /\ \E d1, d2 \in DayStrs :
        /\ d1 # d2
        /\ DailyNoteQualifies(d1) /\ ~HasCreatedItems(d1) /\ ItemsOn(d1) # {}
        /\ CandsOn(d2) = {} /\ HasCreatedItems(d2) /\ ItemsOn(d2) # {}

\* C2: a day whose daily note does not qualify has no item in the result,
\* placeholder or other, unless includeCreatedDays is enabled and the day's
\* bucket holds at least one note or file.
C2_DisqualifiedAbsent ==
    pc = "merged" =>
        \A d \in DayStrs :
            (CandsOn(d) # {} /\ ~Retained(d).qualifies /\ ~HasCreatedItems(d))
                => ItemsOn(d) = {}

\* A disqualified daily note whose bucket is present but empty, with the
\* feature enabled, is left out.
C2_Witness ==
    /\ pc = "merged"
    /\ includeCreatedDays
    /\ createdOnDayIndex # NullIndex
    /\ \E d \in DayStrs :
        /\ CandsOn(d) # {} /\ ~Retained(d).qualifies
        /\ \E i \in 1..Len(createdOnDayIndex.entries) :
                createdOnDayIndex.entries[i].key = d
        /\ ~HasCreatedItems(d)
        /\ ItemsOn(d) = {}
    /\ Len(items) > 0

\* C3: every included day that has a daily-note candidate, qualifying or not,
\* gets an item with dailyNoteExists = true that carries the retained
\* candidate's file, filePath and mtime, and no placeholder.
C3_DailyNoteWins ==
    pc = "merged" =>
        \A d \in DayStrs :
            (CandsOn(d) # {} /\ (Retained(d).qualifies \/ HasCreatedItems(d)))
                => /\ ItemsOn(d) # {}
                   /\ \A i \in ItemsOn(d) :
                        /\ items[i].dailyNoteExists
                        /\ items[i].file = Retained(d).file
                        /\ items[i].filePath = Retained(d).filePath
                        /\ items[i].mtime = Retained(d).mtime

\* A day is included only through its created items, its daily note does
\* not qualify, and its item is the daily note.
C3_Witness ==
    /\ pc = "merged"
    /\ \E d \in DayStrs :
        /\ CandsOn(d) # {} /\ ~Retained(d).qualifies /\ HasCreatedItems(d)
        /\ \E i \in ItemsOn(d) :
            items[i].dailyNoteExists /\ items[i].filePath = Retained(d).filePath

\* C4: of the candidates that share a dateStr exactly one is retained, one
\* with the greatest mtime; the day's qualification, file path and mtime are
\* those of that candidate.
C4_GreatestMtimeRetained ==
    pc = "merged" =>
        \A d \in DayStrs :
            CandsOn(d) # {} =>
                /\ Cardinality(ItemsOn(d)) <= 1
                /\ \E j \in CandsOn(d) :
                    LET kept == dailyNoteCandidates[j]
                    IN /\ \A k \in CandsOn(d) :
                            dailyNoteCandidates[k].mtime <= kept.mtime
                       /\ \A i \in ItemsOn(d) :
                            /\ items[i].filePath = kept.filePath
                            /\ items[i].mtime = kept.mtime
                       /\ ~HasCreatedItems(d) =>
                            (ItemsOn(d) # {} <=> kept.qualifies)

\* A later duplicate with a greater mtime replaces an earlier one that
\* does not qualify, and the day is in the result with the later file.
C4_Witness ==
    /\ pc = "merged"
    /\ \E d \in DayStrs :
        \E j, k \in CandsOn(d) :
            /\ j < k
            /\ dailyNoteCandidates[j].mtime < dailyNoteCandidates[k].mtime
            /\ ~dailyNoteCandidates[j].qualifies
            /\ ~HasCreatedItems(d)
            /\ \E i \in ItemsOn(d) :
                items[i].filePath = dailyNoteCandidates[k].filePath

\* C5: every item with dailyNoteExists = false has filePath "" and mtime 0.
C5_PlaceholderSentinel ==
    pc = "merged" =>
        \A i \in 1..Len(items) :
            ~items[i].dailyNoteExists =>
                items[i].filePath = "" /\ items[i].mtime = 0

\* A placeholder stands for a day whose bucket lists a note.
C5_Witness ==
    /\ pc = "merged"
    /\ \E i \in 1..Len(items) :
        /\ ~items[i].dailyNoteExists
        /\ Len(BucketNotes(items[i].dateStr)) > 0

\* The notes buildListItems counts for a day: those of the day's bucket
\* while includeCreatedDays is enabled; with it disabled no bucket is read.
NotesSeen(d) == IF includeCreatedDays THEN BucketNotes(d) ELSE <<>>

\* C6: for an item with an existing daily note, createdNotesCount is the
\* number of notes of the day's bucket, less one if the daily note's own path
\* is among them; it is never negative, it is 0 when the bucket holds only
\* the daily note, and it is the number of notes listed under the day, none
\* of which is the daily note.
C6_OwnNoteExcluded ==
    pc = "merged" =>
        \A i \in 1..Len(items) :
            items[i].dailyNoteExists =>
                LET notes == NotesSeen(items[i].dateStr)
                    own == {k \in 1..Len(notes) :
                                notes[k].path = items[i].filePath}
                    listed == getCreatedNotesForItem(createdOnDayIndex,
                                                     includeCreatedDays, items[i])
                IN /\ items[i].createdNotesCount =
                        Len(notes) - (IF own = {} THEN 0 ELSE 1)
                   /\ items[i].createdNotesCount >= 0
                   /\ (own = 1..Len(notes)) => items[i].createdNotesCount = 0
                   /\ createdOnDayIndex # NullIndex =>
                        /\ items[i].createdNotesCount = Len(listed)
                        /\ \A k \in 1..Len(listed) :
                                listed[k].path # items[i].filePath

\* The bucket of a day holds the daily note and one other note: one is
\* counted.
C6_Witness ==
    /\ pc = "merged"
    /\ \E i \in 1..Len(items) :
        /\ items[i].dailyNoteExists
        /\ Len(NotesSeen(items[i].dateStr)) = 2
        /\ \E k \in 1..2 :
                NotesSeen(items[i].dateStr)[k].path = items[i].filePath
        /\ items[i].createdNotesCount = 1

\* C7: the result of buildListItems has at most one item per dateStr.
C7_OneItemPerDay ==
    pc = "merged" =>
        \A i, j \in 1..Len(items) :
            items[i].dateStr = items[j].dateStr => i = j

\* A day with two candidates, one of them qualifying, and with created items
\* is in the result.
C7_Witness ==
    /\ pc = "merged"
    /\ \E d \in DayStrs :
        /\ Cardinality(CandsOn(d)) >= 2
        /\ Retained(d).qualifies
        /\ HasCreatedItems(d)
        /\ ItemsOn(d) # {}

\* C8: the result of buildListItems is non-decreasing in epoch for sortOrder
\* "asc" and non-increasing for "desc" and for any other sortOrder.
C8_SortedByEpoch ==
    pc = "merged" =>
        \A i, j \in 1..Len(items) :
            i < j =>
                IF sortOrder = "asc" THEN items[i].epoch <= items[j].epoch
                ELSE items[i].epoch >= items[j].epoch

\* Two days given newest first come out oldest first under "asc".
C8_Witness ==
    /\ pc = "merged"
    /\ sortOrder = "asc"
    /\ Len(dailyNoteCandidates) = 2
    /\ dailyNoteCandidates[1].epoch > dailyNoteCandidates[2].epoch
    /\ Len(items) = 2
    /\ items[1].epoch < items[2].epoch

----------------------------------------------------------------------------
(* Properties of buildListGroups *)

\* The nodes of a forest, and the items of a node's subtree
RECURSIVE NodesOf(_)
NodesOf(gs) ==
    UNION {{gs[i]} \cup NodesOf(gs[i].groups) : i \in 1..Len(gs)}

RECURSIVE SubtreeItems(_)
SubtreeItems(node) ==
    Range(node.items) \cup
    UNION {SubtreeItems(node.groups[i]) : i \in 1..Len(node.groups)}

\* How many times an item occurs in the items lists of a forest
RECURSIVE Occurrences(_, _)
Occurrences(gs, item) ==
    LET F[i \in 0..Len(gs)] ==
            IF i = 0 THEN 0
            ELSE F[i - 1]
                 + Cardinality({k \in 1..Len(gs[i].items) : gs[i].items[k] = item})
                 + Occurrences(gs[i].groups, item)
    IN F[Len(gs)]

\* C9: the dailyNoteCount of every node of the tree is the number of items of
\* its subtree whose dailyNoteExists is true, and for a node with child
\* groups the sum of the children's counts.
C9_DailyNoteCount ==
    pc = "grouped" =>
        \A n \in NodesOf(groups) :
            /\ n.dailyNoteCount =
                    Cardinality({it \in SubtreeItems(n) : it.dailyNoteExists})
            /\ Len(n.groups) > 0 =>
                    n.dailyNoteCount = SumDailyNoteCount(n.groups)

\* A node with two child groups counts two daily notes and has an item
\* without one below it.
C9_Witness ==
    /\ pc = "grouped"
    /\ \E n \in NodesOf(groups) :
        /\ Len(n.groups) >= 2
        /\ n.dailyNoteCount = 2
        /\ \E it \in SubtreeItems(n) : ~it.dailyNoteExists

\* C10: every node with child groups has an empty items list, and every input
\* item occurs exactly once in the tree, in the node without child groups
\* whose id is the last id of the item's id path.
C10_ItemsAtLeaves ==
    pc = "grouped" =>
        /\ \A n \in NodesOf(groups) : Len(n.groups) > 0 => n.items = <<>>
        /\ \A i \in 1..Len(items) :
            LET path == getListGroupIdPathForDate(items[i].date, preset, locale)
            IN /\ Occurrences(groups, items[i]) = 1
               /\ \E n \in NodesOf(groups) :
                    /\ items[i] \in Range(n.items)
                    /\ Len(n.groups) = 0
                    /\ n.id = path[Len(path)]

\* Three items lie in the leaves under one year node with two child groups.
C10_Witness ==
    /\ pc = "grouped"
    /\ Len(items) = 3
    /\ \E n \in NodesOf(groups) :
        /\ Len(n.groups) = 2
        /\ n.items = <<>>
        /\ Cardinality(SubtreeItems(n)) = 3

\* The sibling lists of a forest: its top level and the groups of every node
SiblingLists(gs) == {gs} \cup {n.groups : n \in NodesOf(gs)}

\* The greatest epoch among the items of a node's subtree
MaxEpochOf(node) ==
    LET epochs == {it.epoch : it \in SubtreeItems(node)}
    IN CHOOSE e \in epochs : \A f \in epochs : e >= f

InOrder(x, y) == IF sortOrder = "asc" THEN x <= y ELSE x >= y

\* C11: at every level of the tree sibling groups are ordered by the greatest
\* epoch of the items in their subtrees, and the items of a node without child
\* groups by their epoch: non-decreasing under "asc", non-increasing otherwise.
C11_SiblingsSorted ==
    pc = "grouped" =>
        /\ \A sibs \in SiblingLists(groups) :
            \A i, j \in 1..Len(sibs) :
                i < j => InOrder(MaxEpochOf(sibs[i]), MaxEpochOf(sibs[j]))
        /\ \A n \in NodesOf(groups) :
            \A i, j \in 1..Len(n.items) :
                i < j => InOrder(n.items[i].epoch, n.items[j].epoch)

\* Three days given newest first come out under "asc" as two month groups,
\* oldest first, the second with its two days oldest first.
C11_Witness ==
    /\ pc = "grouped"
    /\ sortOrder = "asc"
    /\ Len(items) = 3
    /\ items[1].epoch > items[2].epoch
    /\ items[2].epoch > items[3].epoch
    /\ \E n \in NodesOf(groups) :
        /\ Len(n.groups) = 2
        /\ MaxEpochOf(n.groups[1]) < MaxEpochOf(n.groups[2])
        /\ Len(n.groups[2].items) = 2
        /\ n.groups[2].items[1].epoch < n.groups[2].items[2].epoch

----------------------------------------------------------------------------
(* Properties of the group ids *)

\* A forest without its labels
RECURSIVE WithoutLabels(_)
WithoutLabels(gs) ==
    [i \in 1..Len(gs) |->
        [id |-> gs[i].id,
         groups |-> WithoutLabels(gs[i].groups),
         items |-> gs[i].items,
         dailyNoteCount |-> gs[i].dailyNoteCount,
         maxEpoch |-> gs[i].maxEpoch]]

MonthNamePresets == {"year_month_name", "year_month_num_name"}

\* C12: for a date and a preset the id path of getListGroupIdPathForDate is
\* the same under every locale, and so is the tree of buildListGroups but for
\* its labels; outside the month-name presets the labels are the same too.
C12_IdsLocaleIndependent ==
    /\ pc = "pathed" =>
        \A loc \in Locales :
            getListGroupIdPathForDate(today, preset, loc) = idPath
    /\ pc = "grouped" =>
        \A loc \in Locales :
            LET other == buildListGroups(items, preset, sortOrder, loc)
            IN /\ WithoutLabels(other) = WithoutLabels(groups)
               /\ preset \notin MonthNamePresets => other = groups

\* Under the French locale and the month-name preset December 2025 is the
\* group "2025/12" labelled "decembre", and the English tree differs from it.
C12_Witness ==
    /\ pc = "grouped"
    /\ locale = "fr"
    /\ preset = "year_month_name"
    /\ \E n \in NodesOf(groups) : n.id = "2025/12" /\ n.label = "decembre"
    /\ buildListGroups(items, preset, sortOrder, "en") # groups

\* What the calendar says about the days of the model: year, two-digit month,
\* quarter, ISO week-year and two-digit ISO week.
DateFacts(date) ==
    CASE date = [y |-> 2024, m |-> 12, d |-> 31] ->
            [yyyy |-> "2024", mm |-> "12", q |-> "Q4", gggg |-> "2025", ww |-> "01"]
      [] date = [y |-> 2025, m |-> 1, d |-> 1] ->
            [yyyy |-> "2025", mm |-> "01", q |-> "Q1", gggg |-> "2025", ww |-> "01"]
      [] date = [y |-> 2025, m |-> 11, d |-> 30] ->
            [yyyy |-> "2025", mm |-> "11", q |-> "Q4", gggg |-> "2025", ww |-> "48"]
      [] date = [y |-> 2025, m |-> 12, d |-> 13] ->
            [yyyy |-> "2025", mm |-> "12", q |-> "Q4", gggg |-> "2025", ww |-> "50"]
      [] date = [y |-> 2025, m |-> 12, d |-> 14] ->
            [yyyy |-> "2025", mm |-> "12", q |-> "Q4", gggg |-> "2025", ww |-> "50"]

\* The id path and the label of the deepest group that the contract gives a
\* date under a preset
ExpectedIdPath(date, p) ==
    LET f == DateFacts(date)
    IN CASE p \in {"year_month", "year_month_name", "year_month_num_name"} ->
                <<f.yyyy, f.yyyy \o "/" \o f.mm>>
         [] p = "year_quarter" -> <<f.yyyy, f.yyyy \o "/" \o f.q>>
         [] p = "year_week" -> <<f.gggg, f.gggg \o "/" \o f.ww>>
         [] OTHER -> <<f.yyyy>>

\* C13: getListGroupIdPathForDate returns cumulative '/'-joined ids: [YYYY]
\* for year; [YYYY, YYYY/MM] for the three month presets; [YYYY, YYYY/Qn]
\* with labels [YYYY, Qn] for year_quarter; [GGGG, GGGG/WW] with label 'W'+WW
\* for year_week, GGGG being the ISO week-year and not the calendar year.
C13_IdPathShape ==
    /\ pc = "pathed" => idPath = ExpectedIdPath(today, preset)
    /\ pc = "grouped" =>
        \A i \in 1..Len(items) :
            LET f == DateFacts(items[i].date)
                path == ExpectedIdPath(items[i].date, preset)
            IN /\ \E g \in Range(groups) : g.id = path[1] /\ g.label = path[1]
               /\ \E n \in NodesOf(groups) :
                    /\ items[i] \in Range(n.items)
                    /\ n.id = path[Len(path)]
                    /\ preset = "year_quarter" => n.label = f.q
                    /\ preset = "year_week" => n.label = "W" \o f.ww

\* 31 December 2024 lies in ISO week 1 of 2025: its week path starts with 2025.
C13_Witness ==
    /\ pc = "pathed"
    /\ preset = "year_week"
    /\ today = [y |-> 2024, m |-> 12, d |-> 31]
    /\ idPath = <<"2025", "2025/01">>

----------------------------------------------------------------------------
(* Properties of computeList *)

\* What a computeList run may write
WrittenByRuns ==
    <<listGroups, groupOpenState, dayOpenState, dayChildOpenState, listError,
      listLoading>>

\* The step is taken by the run with this nonce, and by no other run
StepOfRun(n) ==
    /\ n \in 1..Len(runs')
    /\ n \in 1..Len(runs) => runs'[n] # runs[n]
    /\ \A m \in 1..Len(runs) : m # n => runs'[m] = runs[m]

\* C14: a step, other than a toggle by the user, that changes the list groups,
\* an open-state map, the error message or the loading flag is a step of the
\* run started last, and a run that resumes after a newer run has started
\* returns without writing any of them, whether the newer run has finished or
\* not.
C14_LastStartedWins ==
    [][/\ (WrittenByRuns' # WrittenByRuns /\ toggles' = toggles) =>
            StepOfRun(listComputeNonce')
       /\ \A n \in 1..Len(runs) :
            (runs[n].nonce < listComputeNonce /\ runs'[n] # runs[n]) =>
                /\ runs'[n].at = "stale"
                /\ WrittenByRuns' = WrittenByRuns]_vars

\* The first run resumed after the second had started and returned as stale;
\* the index being empty, the two days of the list are the two daily notes
\* that the second run read.
C14_Witness ==
    /\ pc = "compute"
    /\ Len(runs) = 2
    /\ listComputeNonce = 2
    /\ runs[1].at = "stale"
    /\ runs[2].at = "done"
    /\ createdOnDayIndex = Index(<<>>)
    /\ listLoading = FALSE
    /\ Cardinality(DOMAIN dayOpenState) = 2

----------------------------------------------------------------------------
(* Properties of the created-on-day index *)

\* The operation that the notification delivered in this step carries, read
\* off the change of the vault; none when the step is not a notification
DeliveredOps ==
    IF events' # events + 1 THEN {}
    ELSE CASE lastEvent' = "create" ->
                {CreateOp(f) : f \in vault' \ vault}
           [] lastEvent' = "delete" ->
                {DeleteOp(f) : f \in vault \ vault'}
           [] lastEvent' = "rename" ->
                {RenameOp(f, g.path) : <<f, g>> \in (vault' \ vault) \X (vault \ vault')}
           [] OTHER -> {}

\* The files of a set in the order of their paths
InPathOrder(files) ==
    CHOOSE fs \in [1..Cardinality(files) -> files] :
        \A i, j \in 1..Len(fs) : i < j => PathRank(fs[i].path) < PathRank(fs[j].path)

\* The files of a vault that belong in the index: outside the trash, with a
\* creation time
Excluded == {".obsidian/app.json", ".trash/a.md"}

Indexable(v) == {f \in v : f.path \notin Excluded /\ f.ctime # NoCTime}

DayOf(ctime) == IF ctime = Day13 THEN "2025-12-13" ELSE "2025-12-14"

\* The buckets that a vault calls for, by day
BucketsFor(v) ==
    {<<DayOf(c),
       [notes |-> InPathOrder({f \in Indexable(v) :
                        f.ctime = c /\ f.extension \in {"md", "canvas"}}),
        files |-> InPathOrder({f \in Indexable(v) :
                        f.ctime = c /\ f.extension \notin {"md", "canvas"}})]>> :
        c \in {f.ctime : f \in Indexable(v)}}

\* The buckets of an index, by day
BucketsOf(index) ==
    {<<index.entries[i].key, index.entries[i].bucket>> :
        i \in 1..Len(index.entries)}

\* The build at this position commits in this step
Commits(k) == builds[k].at = "yield" /\ builds'[k].at = "done"

\* C15: a notification that arrives while the index is loading is appended to
\* the queue and leaves the index alone; the build that completes replays the
\* queue in arrival order on its sorted scan and commits the result, which
\* holds exactly the files of the vault as it is then.
C15_QueuedOpsReplayed ==
    [][/\ \A op \in DeliveredOps :
            createdOnDayIndexLoading =>
                /\ createdOnDayIndexPendingOps' =
                        Append(createdOnDayIndexPendingOps, op)
                /\ createdOnDayIndex' = createdOnDayIndex
       /\ \A k \in 1..Len(builds) :
            Commits(k) =>
                /\ createdOnDayIndex' =
                        ReplayPendingOps(SortBuckets(builds[k].next),
                                         createdOnDayIndexPendingOps)
                /\ BucketsOf(createdOnDayIndex') = BucketsFor(vault)]_vars

\* A build has replayed two queued operations, nothing has happened since, and
\* the index it committed has an entry.
C15_Witness ==
    /\ pc = "index"
    /\ \E k \in 1..Len(builds) : builds[k].at = "done" /\ builds[k].replayed = 2
    /\ events = 2
    /\ createdOnDayIndexPendingOps = <<>>
    /\ createdOnDayIndex # Index(<<>>)

\* What a build may write
WrittenByBuilds ==
    <<createdOnDayIndex, createdOnDayIndexBuiltOnce, createdOnDayIndexLoading,
      createdOnDayIndexError, createdOnDayIndexPendingOps>>

\* C16: the build token never decreases, and a build whose token is not the
\* current one returns when it resumes, without writing the index, the
\* built-once flag, the loading flag, the error or the queue.
C16_StaleBuildWritesNothing ==
    [][/\ createdOnDayIndexBuildNonce' >= createdOnDayIndexBuildNonce
       /\ \A k \in 1..Len(builds) :
            (/\ builds[k].nonce # createdOnDayIndexBuildNonce
             /\ builds'[k] # builds[k]) =>
                /\ builds'[k].at = "stale"
                /\ WrittenByBuilds' = WrittenByBuilds]_vars

\* The first build was overtaken by a switch off and on and returned as
\* stale; the second build committed an index with an entry.
C16_Witness ==
    /\ pc = "index"
    /\ Len(builds) = 2
    /\ builds[1].at = "stale"
    /\ builds[2].at = "done"
    /\ builds[2].nonce = createdOnDayIndexBuildNonce
    /\ createdOnDayIndex # Index(<<>>)

\* A build that holds the current token is in flight
CurrentBuildInFlight ==
    \E k \in 1..Len(builds) :
        builds[k].at = "yield" /\ builds[k].nonce = createdOnDayIndexBuildNonce

\* C17: the queue is non-empty only while the index is loading and a build
\* with the current token is in flight; it grows only while loading; and the
\* step in which a build commits or fails leaves it empty and loading off.
C17_QueueOnlyWhileLoading ==
    /\ [](createdOnDayIndexPendingOps # <<>> =>
            createdOnDayIndexLoading /\ CurrentBuildInFlight)
    /\ [][/\ Len(createdOnDayIndexPendingOps') > Len(createdOnDayIndexPendingOps)
                => createdOnDayIndexLoading /\ createdOnDayIndexLoading'
          /\ \A k \in 1..Len(builds) :
                (builds[k].at = "yield" /\ builds'[k].at \in {"done", "failed"}) =>
                    /\ createdOnDayIndexPendingOps' = <<>>
                    /\ ~createdOnDayIndexLoading']_vars

\* One notification was queued and replayed by the build, a second one came
\* after the commit and was applied at once: the queue is empty.
C17_Witness ==
    /\ pc = "index"
    /\ \E k \in 1..Len(builds) : builds[k].at = "done" /\ builds[k].replayed = 1
    /\ events = 2
    /\ ~createdOnDayIndexLoading
    /\ createdOnDayIndexPendingOps = <<>>
    /\ Len(createdOnDayIndex.entries) = 2

PathsIn(list) == {list[i].path : i \in 1..Len(list)}

\* C18: in every bucket of the index the notes are md or canvas files, the
\* files are of other kinds, no path is in both lists, and one of the two
\* lists is not empty.
C18_BucketsPartitioned ==
    pc = "index" =>
        \A i \in 1..Len(createdOnDayIndex.entries) :
            LET b == createdOnDayIndex.entries[i].bucket
            IN /\ PathsIn(b.notes) \cap PathsIn(b.files) = {}
               /\ \A k \in 1..Len(b.notes) :
                    b.notes[k].extension \in {"md", "canvas"}
               /\ \A k \in 1..Len(b.files) :
                    b.files[k].extension \notin {"md", "canvas"}
               /\ ~(b.notes = <<>> /\ b.files = <<>>)

\* After the delete of the only note of 13 December the index is left with
\* the bucket of 14 December alone, which lists c.png under files.
C18_Witness ==
    /\ pc = "index"
    /\ lastEvent = "delete"
    /\ events = 2
    /\ createdOnDayIndexBuiltOnce
    /\ ~createdOnDayIndexLoading
    /\ createdOnDayIndexError = Null
    /\ vault = {VaultFile("c.png", Day14)}
    /\ createdOnDayIndex =
            Index(<<[key |-> "2025-12-14",
                     bucket |-> [notes |-> <<>>,
                                 files |-> <<VaultFile("c.png", Day14)>>]]>>)

\* C19: the notes and the files of every bucket of the index are in the
\* order of their paths, each path once.
C19_BucketsSorted ==
    pc = "index" =>
        \A i \in 1..Len(createdOnDayIndex.entries) :
            LET b == createdOnDayIndex.entries[i].bucket
            IN /\ \A j, k \in 1..Len(b.notes) :
                    j < k => PathRank(b.notes[j].path) < PathRank(b.notes[k].path)
               /\ \A j, k \in 1..Len(b.files) :
                    j < k => PathRank(b.files[j].path) < PathRank(b.files[k].path)

\* A create has put a.md in front of b.canvas in the notes of a bucket.
C19_Witness ==
    /\ pc = "index"
    /\ lastEvent = "create"
    /\ ~createdOnDayIndexLoading
    /\ \E i \in 1..Len(createdOnDayIndex.entries) :
        LET b == createdOnDayIndex.entries[i].bucket
        IN /\ Len(b.notes) = 2
           /\ b.notes[1].path = "a.md"
           /\ b.notes[2].path = "b.canvas"

\* How many entries of a bucket have this path
CountInBucket(bucket, path) ==
    Cardinality({k \in 1..Len(bucket.notes) : bucket.notes[k].path = path})
    + Cardinality({k \in 1..Len(bucket.files) : bucket.files[k].path = path})

\* How many entries of an index have this path
CountInIndex(index, path) ==
    LET F[i \in 0..Len(index.entries)] ==
            IF i = 0 THEN 0
            ELSE F[i - 1] + CountInBucket(index.entries[i].bucket, path)
    IN F[Len(index.entries)]

\* The files that an index lists
IndexedFiles(index) ==
    UNION {{index.entries[i].bucket.notes[k] :
                k \in 1..Len(index.entries[i].bucket.notes)}
           \cup {index.entries[i].bucket.files[k] :
                k \in 1..Len(index.entries[i].bucket.files)} :
           i \in 1..Len(index.entries)}

\* C20: after a rename notification handled at once no bucket has an entry
\* for the old path, and the new path has one entry, in the bucket of the
\* creation day, when the file is outside the trash and has a creation time,
\* and none otherwise; and a rename onto a path that the index lists already
\* leaves the bucket of the creation day without the old path and with the
\* new path once.
C20_RenameMovesEntry ==
    /\ [][\A op \in DeliveredOps :
            (/\ op.type = "rename"
             /\ includeCreatedDays
             /\ ~createdOnDayIndexLoading
             /\ createdOnDayIndexBuiltOnce) =>
                LET eligible == op.file.path \notin Excluded /\ op.ctime # NoCTime
                    new == createdOnDayIndex'
                IN /\ CountInIndex(new, op.oldPath) = 0
                   /\ CountInIndex(new, op.file.path) = IF eligible THEN 1 ELSE 0
                   /\ eligible =>
                        CountInBucket(Lookup(new, DayOf(op.ctime)), op.file.path) = 1]_vars
    /\ [](pc = "index" =>
            \A f \in IndexedFiles(createdOnDayIndex) :
                \A i \in 1..Len(Paths) :
                    Paths[i] # f.path =>
                        LET new == applyCreatedOnDayIndexOp(createdOnDayIndex,
                                        RenameOp(f, Paths[i]))
                            b == Lookup(new, DayOf(f.ctime))
                        IN /\ b # NullBucket
                           /\ CountInBucket(b, Paths[i]) = 0
                           /\ CountInBucket(b, f.path) = 1)

\* a.md has just been moved to the trash: the index, built and not loading,
\* has lost its only entry.
C20_Witness ==
    /\ pc = "index"
    /\ lastEvent = "rename"
    /\ includeCreatedDays
    /\ createdOnDayIndexBuiltOnce
    /\ ~createdOnDayIndexLoading
    /\ createdOnDayIndexError = Null
    /\ events = 1
    /\ vault = {VaultFile(".trash/a.md", Day13)}
    /\ createdOnDayIndex = Index(<<>>)

\* C22: the index never lists a file under .obsidian/ or .trash/, nor a file
\* without a creation time, whatever builds, creates, deletes and renames
\* have happened.
C22_ExcludedNeverIndexed ==
    pc = "index" =>
        \A f \in IndexedFiles(createdOnDayIndex) :
            /\ f.path \notin Excluded
            /\ f.ctime # NoCTime

\* The vault holds a file under .obsidian/ and one in the trash, both
\* created after c.png; the index, built, lists c.png alone.
C22_Witness ==
    /\ pc = "index"
    /\ lastEvent = "create"
    /\ events = 2
    /\ createdOnDayIndexBuiltOnce
    /\ ~createdOnDayIndexLoading
    /\ createdOnDayIndexError = Null
    /\ vault = {VaultFile("c.png", Day13), VaultFile(".obsidian/app.json", Day13),
                VaultFile(".trash/a.md", Day13)}
    /\ createdOnDayIndex =
            Index(<<[key |-> "2025-12-13",
                     bucket |-> [notes |-> <<>>,
                                 files |-> <<VaultFile("c.png", Day13)>>]]>>)

\* The build at this position fails in this step
Fails(k) == builds[k].at = "yield" /\ builds'[k].at = "failed"

\* C29: a build that throws while its token is the current one records the
\* error message, leaves the index empty, whatever it had scanned, sets the
\* built-once flag, clears the loading flag and the queue, and returns; and
\* an error is on record only when a build has failed so.
C29_FailedBuildFallsBackToEmpty ==
    /\ [][\A k \in 1..Len(builds) :
            /\ Fails(k) =>
                /\ builds[k].nonce = createdOnDayIndexBuildNonce
                /\ createdOnDayIndexError' = ErrorMessage
                /\ createdOnDayIndex' = Index(<<>>)
                /\ createdOnDayIndexBuiltOnce'
                /\ ~createdOnDayIndexLoading'
                /\ createdOnDayIndexPendingOps' = <<>>
                /\ createdOnDayIndexBuildNonce' = createdOnDayIndexBuildNonce
                /\ Len(builds') = Len(builds)
            /\ (builds[k].at = "yield"
                    /\ builds[k].nonce = createdOnDayIndexBuildNonce
                    /\ createdOnDayIndexError' # Null) => Fails(k)]_vars
    /\ [](createdOnDayIndexError # Null =>
            /\ createdOnDayIndex = Index(<<>>) \/ events > 0
            /\ \E k \in 1..Len(builds) :
                    builds[k].at = "failed"
                    /\ builds[k].nonce = createdOnDayIndexBuildNonce)

\* The only build failed with a.md in the vault: the error is on record, the
\* index is empty, nothing is loading, no notification has come.
C29_Witness ==
    /\ pc = "index"
    /\ Len(builds) = 1
    /\ builds[1].at = "failed"
    /\ vault = {VaultFile("a.md", Day13)}
    /\ events = 0
    /\ createdOnDayIndexError = ErrorMessage
    /\ createdOnDayIndex = Index(<<>>)
    /\ createdOnDayIndexBuiltOnce
    /\ ~createdOnDayIndexLoading
    /\ createdOnDayIndexPendingOps = <<>>

----------------------------------------------------------------------------
(* Properties of applyCreatedOnDayIndexOp *)

\* The entries of an index without a path: the path is filtered out of both
\* lists of every bucket, and the buckets this empties are dropped
EntriesWithout(index, path) ==
    LET filtered == [i \in 1..Len(index.entries) |->
            [key |-> index.entries[i].key,
             bucket |->
                [notes |-> SelectSeq(index.entries[i].bucket.notes,
                                     LAMBDA f : f.path # path),
                 files |-> SelectSeq(index.entries[i].bucket.files,
                                     LAMBDA f : f.path # path)]]]
    IN SelectSeq(filtered,
                 LAMBDA e : e.bucket.notes # <<>> \/ e.bucket.files # <<>>)

\* C21: a delete operation without a creation time leaves no bucket with the
\* deleted path and no empty bucket, and every other entry of every bucket
\* where it was, in the same order.
C21_DeleteWithoutCTimeScans ==
    (pc = "applied" /\ opArg.type = "delete" /\ opArg.ctime = NoCTime) =>
        /\ CountInIndex(nextIndex, opArg.path) = 0
        /\ \A i \in 1..Len(nextIndex.entries) :
                \/ nextIndex.entries[i].bucket.notes # <<>>
                \/ nextIndex.entries[i].bucket.files # <<>>
        /\ nextIndex.entries = EntriesWithout(createdOnDayIndex, opArg.path)

\* c.png was listed under both days, alone under the second: the delete
\* without a creation time has removed it from the first bucket and dropped
\* the second.
C21_Witness ==
    /\ pc = "applied"
    /\ opArg = DeleteOp(VaultFile("c.png", NoCTime))
    /\ createdOnDayIndex =
            Index(<<[key |-> "2025-12-13",
                     bucket |-> [notes |-> <<VaultFile("a.md", Day13)>>,
                                 files |-> <<VaultFile("c.png", Day13)>>]],
                    [key |-> "2025-12-14",
                     bucket |-> [notes |-> <<>>,
                                 files |-> <<VaultFile("c.png", Day14)>>]]>>)
    /\ nextIndex =
            Index(<<[key |-> "2025-12-13",
                     bucket |-> [notes |-> <<VaultFile("a.md", Day13)>>,
                                 files |-> <<>>]]>>)

----------------------------------------------------------------------------
(* Properties of the open states and of a failed run *)

\* The step is the commit of the run at position n: it assigns listGroups
CommitsList(n) ==
    /\ n \in 1..Len(runs')
    /\ runs'[n].at = "done"
    /\ n \in 1..Len(runs) => runs[n].at = "await"

Committed == \E n \in 1..Len(runs') : CommitsList(n)

\* The ids of the groups of a tree, and the dateUIDs of its items
GroupIds(gs) == {n.id : n \in NodesOf(gs)}

DayUIDs(gs) == UNION {{it.dateUID : it \in Range(n.items)} : n \in NodesOf(gs)}

\* C23: after a commit of computeList the keys of groupOpenState are exactly
\* the ids of the groups of the new tree, entries of ids that are gone being
\* removed, and every id that had a value before the commit keeps that value.
C23_GroupKeysReconciled ==
    [][Committed =>
        /\ DOMAIN groupOpenState' = GroupIds(listGroups')
        /\ \A id \in GroupIds(listGroups') \cap DOMAIN groupOpenState :
                groupOpenState'[id] = groupOpenState[id]]_vars

\* Two runs have committed and the year group, which is on today's path and
\* was seeded open, is closed as the user left it.
C23_Witness ==
    /\ pc = "compute"
    /\ Len(runs) = 2
    /\ runs[1].at = "done"
    /\ runs[2].at = "done"
    /\ toggles = 1
    /\ "2025" \in DOMAIN groupOpenState
    /\ ~groupOpenState["2025"]
    /\ DOMAIN groupOpenState = GroupIds(listGroups)

\* C24: after a commit of computeList every group of the new tree that had no
\* entry before is open if and only if its id is on the id path of today's
\* date under the grouping preset in force.
C24_NewGroupsOpenOnTodaysPath ==
    [][Committed =>
        \A id \in GroupIds(listGroups') \ DOMAIN groupOpenState :
            groupOpenState'[id] <=> id \in Range(ExpectedIdPath(today, preset))]_vars

\* Nothing was toggled: the groups of December 2025, today's month, are open
\* and the group of November is closed.
C24_Witness ==
    /\ pc = "compute"
    /\ toggles = 0
    /\ \E n \in 1..Len(runs) : runs[n].at = "done"
    /\ DOMAIN groupOpenState = {"2025", "2025/11", "2025/12"}
    /\ groupOpenState["2025"]
    /\ groupOpenState["2025/12"]
    /\ ~groupOpenState["2025/11"]

\* C25: after a commit of computeList the keys of dayOpenState and of
\* dayChildOpenState are exactly the dateUIDs of the new items; a day without
\* an entry before the commit is closed and so is its files sub-section, and
\* a value that was there before is kept.
C25_DayKeysReconciled ==
    [][Committed =>
        LET uids == DayUIDs(listGroups')
        IN /\ DOMAIN dayOpenState' = uids
           /\ DOMAIN dayChildOpenState' = uids
           /\ \A uid \in uids :
                /\ dayOpenState'[uid] =
                       IF uid \in DOMAIN dayOpenState THEN dayOpenState[uid]
                       ELSE FALSE
                /\ dayChildOpenState'[uid].files =
                       IF uid \in DOMAIN dayChildOpenState
                       THEN dayChildOpenState[uid].files ELSE FALSE]_vars

\* The user opened 14 December and its attachments; a second run has
\* committed since the first, and both are still open while the day of the
\* daily note is closed.
C25_Witness ==
    /\ pc = "compute"
    /\ Len(runs) = 2
    /\ runs[1].at = "done"
    /\ runs[2].at = "done"
    /\ toggles = 2
    /\ DOMAIN dayOpenState = {"day-2025-12-13", "day-2025-12-14"}
    /\ dayOpenState["day-2025-12-14"]
    /\ dayChildOpenState["day-2025-12-14"].files
    /\ ~dayOpenState["day-2025-12-13"]
    /\ ~dayChildOpenState["day-2025-12-13"].files

\* C26: the reconciliation of computeList is idempotent: applied once more to
\* the open states a commit has written, with the same tree, preset and today,
\* it gives these open states again; and a run that commits the tree already
\* shown, the keys of the open states being those of that tree, changes none
\* of the three maps.
C26_ReconciliationIdempotent ==
    [][Committed =>
        LET ids == GroupIds(listGroups')
            uids == DayUIDs(listGroups')
            todayPath == getListGroupIdPathForDate(
                             today, normalizeListViewGroupingPreset(preset), locale)
        IN /\ ReconcileGroupOpenState(groupOpenState', ids, Range(todayPath))
                  = groupOpenState'
           /\ ReconcileDayOpenState(dayOpenState', uids) = dayOpenState'
           /\ ReconcileDayChildOpenState(dayChildOpenState', uids)
                  = dayChildOpenState'
           /\ (/\ listGroups' = listGroups
               /\ DOMAIN groupOpenState = GroupIds(listGroups)
               /\ DOMAIN dayOpenState = DayUIDs(listGroups)
               /\ DOMAIN dayChildOpenState = DayUIDs(listGroups)) =>
                 UNCHANGED <<groupOpenState, dayOpenState, dayChildOpenState>>]_vars

\* Two runs have committed a list of two days under two month groups, and the
\* maps hold values that the user set: November is open, a day is open.
C26_Witness ==
    /\ pc = "compute"
    /\ Len(runs) = 2
    /\ runs[1].at = "done"
    /\ runs[2].at = "done"
    /\ toggles = 2
    /\ "2025/11" \in DOMAIN groupOpenState
    /\ groupOpenState["2025/11"]
    /\ "day-2025-11-30" \in DOMAIN dayOpenState
    /\ dayOpenState["day-2025-11-30"]
    /\ DOMAIN dayChildOpenState = DayUIDs(listGroups)

\* The step is the failure of the run at position n
FailsList(n) ==
    /\ n \in 1..Len(runs)
    /\ runs[n].at = "await"
    /\ runs'[n].at = "failed"

\* C28: when a run of computeList that is still the latest one throws, the
\* list groups are cleared, the error message is set and the loading flag is
\* cleared; the run that starts next resets the error message and starts from
\* the daily notes of the store with no candidate gathered, whatever the runs
\* before it did.
C28_FailedRunClearsList ==
    [][/\ \A n \in 1..Len(runs) :
            FailsList(n) =>
                /\ runs[n].nonce = listComputeNonce
                /\ listGroups' = <<>>
                /\ listError' = ErrorMessage
                /\ listLoading' = FALSE
       /\ Len(runs') = Len(runs) + 1 =>
            LET new == runs'[Len(runs')]
            IN /\ listError' = Null
               /\ new.nonce = listComputeNonce'
               /\ new.candidates = <<>>
               /\ new.i = 0
               /\ new.at = "await" => new.files = FilesOf(dailyNotes)
               /\ new.at \in {"await", "done"}]_vars

\* The first run failed; the second has committed a list and there is no
\* error message.
C28_Witness ==
    /\ pc = "compute"
    /\ Len(runs) = 2
    /\ runs[1].at = "failed"
    /\ runs[2].at = "done"
    /\ listError = Null
    /\ listLoading = FALSE
    /\ listGroups # <<>>

\* C30: a read of a file's content that fails gives the file a word count of 0
\* and computeList goes on: the run that awaited the read does not fail and no
\* error message is set.
C30_FailedReadCountsZero ==
    [][\A n \in 1..Len(runs) :
            (/\ runs[n].at = "await"
             /\ runs[n].nonce = listComputeNonce
             /\ runs'[n] # runs[n]
             /\ runs'[n].read \in {"unavailable", "rejects"}) =>
                /\ runs'[n].at # "failed"
                /\ listError' = Null]_vars

----------------------------------------------------------------------------
(* Properties of the persisted view state *)

\* Number of entries of a map
Size(map) ==
    LET es == map.entries
        F[i \in 0..Len(es)] == IF i = 0 THEN 0 ELSE F[i - 1] + es[i].n
    IN F[Len(es)]

EntriesOf(map) == {map.entries[i] : i \in 1..Len(map.entries)}

\* C27: whatever data.json held and whatever updateViewState was given, the
\* view state of the plugin has a boolean showList, a displayedMonth that is
\* null or a string, a groupOpenState of boolean values only, a dayOpenState
\* of true values only and a dayChildOpenState of { files: true } values
\* only, all under keys that are not empty; groupOpenState has at most 20,000
\* keys and the two day maps at most 50,000 each.
C27_ViewStateSanitized ==
    pc \in {"plugin", "loaded"} =>
        /\ viewState.showList.t = "boolean"
        /\ viewState.displayedMonth.t \in {"null", "string"}
        /\ isRecord(viewState.groupOpenState)
        /\ isRecord(viewState.dayOpenState)
        /\ isRecord(viewState.dayChildOpenState)
        /\ \A e \in EntriesOf(viewState.groupOpenState) :
                e.v.t = "boolean" /\ e.key # "" /\ e.n >= 1
        /\ \A e \in EntriesOf(viewState.dayOpenState) :
                e.v = JSBoolean(TRUE) /\ e.key # "" /\ e.n >= 1
        /\ \A e \in EntriesOf(viewState.dayChildOpenState) :
                /\ isRecord(e.v)
                /\ Get(e.v, "files") = JSBoolean(TRUE)
                /\ e.key # ""
                /\ e.n >= 1
        /\ Size(viewState.groupOpenState) <= MAX_GROUP_KEYS
        /\ Size(viewState.dayOpenState) <= MAX_DAY_KEYS
        /\ Size(viewState.dayChildOpenState) <= MAX_DAY_KEYS

\* data.json held one entry and 50,000 more in each map: groupOpenState was
\* cut at 20,000 keys of both values; an update then gave dayChildOpenState
\* 50,000 entries with a true files flag, all of which were kept.
C27_Witness ==
    /\ pc = "loaded"
    /\ Size(viewState.groupOpenState) = MAX_GROUP_KEYS
    /\ Len(viewState.groupOpenState.entries) = 2
    /\ viewState.groupOpenState.entries[1].v = JSBoolean(TRUE)
    /\ viewState.groupOpenState.entries[2].v = JSBoolean(FALSE)
    /\ viewState.dayOpenState.entries = <<Entries(1, "k", JSBoolean(TRUE))>>
    /\ Size(viewState.dayChildOpenState) = MAX_DAY_KEYS
    /\ viewState.displayedMonth = JSString("2025-12-01")

----------------------------------------------------------------------------
(* Properties of the index when the setting is turned off and on *)

\* C36: the step that turns include-created-days off leaves the index empty,
\* the loading flag off, no error, no pending operation and no build with the
\* current token; while the setting is off the index stays empty; the step
\* that turns it on again while the list is shown starts a build with a new
\* token over a fresh listing of the vault, from an empty index.
C36_DisableResetsEnableRebuilds ==
    /\ [](pc = "index" /\ ~includeCreatedDays =>
            /\ createdOnDayIndex = Index(<<>>)
            /\ ~createdOnDayIndexLoading
            /\ createdOnDayIndexPendingOps = <<>>
            /\ ~CurrentBuildInFlight)
    /\ [][/\ (includeCreatedDays /\ ~includeCreatedDays') =>
                /\ createdOnDayIndex' = Index(<<>>)
                /\ ~createdOnDayIndexLoading'
                /\ createdOnDayIndexError' = Null
                /\ createdOnDayIndexPendingOps' = <<>>
                /\ ~createdOnDayIndexBuiltOnce'
                /\ \A k \in 1..Len(builds') :
                        builds'[k].nonce < createdOnDayIndexBuildNonce'
          /\ (~includeCreatedDays /\ includeCreatedDays' /\ showList) =>
                /\ Len(builds') = Len(builds) + 1
                /\ LET new == builds'[Len(builds')]
                   IN /\ new.nonce = createdOnDayIndexBuildNonce'
                      /\ new.nonce > createdOnDayIndexBuildNonce
                      /\ new.at = "yield" =>
                            /\ new.files \in FileLists(vault)
                            /\ createdOnDayIndexLoading'
                            /\ createdOnDayIndex' = Index(<<>>)
                            /\ IndexedFiles(new.next) \subseteq vault
                      /\ new.at = "done" =>
                            /\ vault = {}
                            /\ createdOnDayIndex' = Index(<<>>)]_vars

\* A first build had filled the index; the setting was turned off and on
\* again, which took two tokens, and the second build is scanning the vault.
C36_Witness ==
    /\ pc = "index"
    /\ includeCreatedDays
    /\ showList
    /\ Len(builds) = 2
    /\ builds[1].at = "done"
    /\ builds[2].at = "yield"
    /\ builds[2].nonce = builds[1].nonce + 2
    /\ createdOnDayIndexLoading
    /\ createdOnDayIndex = Index(<<>>)
    /\ vault # {}

\* The keys of the entries of an index whose bucket lists this path
DaysListing(index, path) ==
    {index.entries[i].key : i \in
        {j \in 1..Len(index.entries) :
            CountInBucket(index.entries[j].bucket, path) > 0}}

\* C39: after any builds and create, delete and rename notifications, every
\* path that the index lists is listed once, is the path of a file of the
\* vault, and is listed in the bucket of the day on which that file was
\* created.
C39_OneBucketPerPath ==
    pc = "index" =>
        \A g \in IndexedFiles(createdOnDayIndex) :
            /\ CountInIndex(createdOnDayIndex, g.path) = 1
            /\ \E f \in vault :
                /\ f.path = g.path
                /\ f.ctime # NoCTime
                /\ DaysListing(createdOnDayIndex, g.path) = {DayOf(f.ctime)}

\* The vault holds a note created on 13 December and an image created on
\* 14 December; after two notifications the index lists each under its day.
C39_Witness ==
    /\ pc = "index"
    /\ events = 2
    /\ ~createdOnDayIndexLoading
    /\ DaysListing(createdOnDayIndex, "c.png") = {"2025-12-14"}
    /\ DaysListing(createdOnDayIndex, "b.canvas") = {"2025-12-13"}
    /\ Len(createdOnDayIndex.entries) = 2

\* The builds that hold the current token and have not returned
CurrentBuilds ==
    {k \in 1..Len(builds) :
        builds[k].at = "yield" /\ builds[k].nonce = createdOnDayIndexBuildNonce}

\* The build at this position waits at a yield
AtYield(k) == k \in 1..Len(builds) /\ builds[k].at = "yield"

\* C38: at most one build holds the current token; the index is loading
\* exactly when such a build is in flight, and a step taken while it is
\* loading starts no build; every build that waits at a yield returns, and
\* whenever the loading flag is on it goes off.
C38_OneBuildAndItEnds ==
    /\ [](pc = "index" =>
            /\ Cardinality(CurrentBuilds) <= 1
            /\ createdOnDayIndexLoading <=> CurrentBuilds # {}
            /\ \A j, k \in 1..Len(builds) :
                    j # k => builds[j].nonce # builds[k].nonce)
    /\ [][createdOnDayIndexLoading => Len(builds') = Len(builds)]_vars
    /\ \A k \in 1..MaxNonce : AtYield(k) ~> ~AtYield(k)
    /\ createdOnDayIndexLoading ~> ~createdOnDayIndexLoading

\* Two builds are in flight: the first lost its token when the setting was
\* turned off, the second holds the current one and the index is loading.
C38_Witness ==
    /\ pc = "index"
    /\ Len(builds) = 2
    /\ builds[1].at = "yield"
    /\ builds[2].at = "yield"
    /\ CurrentBuilds = {2}
    /\ createdOnDayIndexLoading

----------------------------------------------------------------------------
(* Properties of the loading flag of the list *)

\* C37: listLoading is set exactly while the run of computeList started last
\* has not returned; a step of an older run leaves the flag as it is; and with
\* every awaited promise settling, a set flag is cleared in the end.
C37_LoadingFollowsLatestRun ==
    /\ [](pc = "compute" =>
            (listLoading <=> (runs # <<>> /\ runs[Len(runs)].at = "await")))
    /\ [][\A n \in 1..Len(runs) :
            (n < Len(runs) /\ Len(runs') = Len(runs) /\ runs'[n] # runs[n])
                => listLoading' = listLoading]_vars
    /\ [][\A n \in 1..Len(runs) :
            (n = Len(runs) /\ Len(runs') = Len(runs) /\ runs[n].at = "await"
                /\ runs'[n].at # "await") => ~listLoading']_vars
    /\ listLoading ~> ~listLoading

\* An older run returns after the latest one has: the flag stays cleared
C37_Witness ==
    /\ pc = "compute"
    /\ Len(runs) = 2
    /\ runs[2].at = "failed"
    /\ runs[1].at = "stale"
    /\ ~listLoading
    /\ listError = ErrorMessage

----------------------------------------------------------------------------
(* Properties of the minimum-word threshold *)

\* The words that getWordCountFromFile counts in a file when its read has
\* this outcome
WordsRead(file, read) == IF read = "unavailable" THEN 0 ELSE file.words

\* The days of a tree whose item stands for a daily note
NoteDays(gs) ==
    {it.dateUID : it \in {x \in UNION {Range(n.items) : n \in NodesOf(gs)} :
                              x.dailyNoteExists}}

\* C34: a run of computeList with a threshold of 0 or less reads no file and
\* lists every daily note; with a positive threshold it reads the files and
\* lists exactly the daily notes whose word count is at least the threshold.
C34_ThresholdDecidesCandidates ==
    [][\A n \in 1..Len(runs) :
        /\ (runs[n].at = "await" /\ runs[n].listViewMinWords <= 0)
                => runs'[n].read = "none"
        /\ (runs[n].at = "await" /\ runs'[n].at = "done") =>
            LET r == runs[n]
                read == runs'[n].read
                qualifying == {f \in Range(r.files) :
                                  \/ r.listViewMinWords <= 0
                                  \/ WordsRead(f, read) >= r.listViewMinWords}
            IN /\ r.listViewMinWords > 0 => read \in {"text", "unavailable"}
               /\ NoteDays(listGroups') =
                      {getDayDateUID(f.date) : f \in qualifying}]_vars

\* Two daily notes were read under a threshold of 5: the note of 5 words is
\* listed, the note of 3 words is not
C34_Witness ==
    /\ pc = "compute"
    /\ Len(runs) = 1
    /\ runs[1].at = "done"
    /\ runs[1].listViewMinWords = 5
    /\ runs[1].read = "text"
    /\ dailyNotes = DailyNoteFiles
    /\ NoteDays(listGroups) = {getDayDateUID([y |-> 2025, m |-> 12, d |-> 13])}

----------------------------------------------------------------------------
(* Properties of buildListItems with the created days switched off *)

\* C40: with includeCreatedDays off, buildListItems gives for the index
\* passed in what it gives for no index and for an empty one, so the result
\* is the same for any two indexes; the days of the result are exactly the
\* days whose retained candidate qualifies, and every item counts no created
\* note and no created file.
C40_IndexIgnoredWhenDisabled ==
    [][(pc = "merge" /\ pc' = "merged" /\ ~includeCreatedDays) =>
        /\ items' = buildListItems(dailyNoteCandidates, NullIndex, FALSE,
                                   sortOrder)
        /\ items' = buildListItems(dailyNoteCandidates, Index(<<>>), FALSE,
                                   sortOrder)
        /\ {items'[i].dateStr : i \in 1..Len(items')} =
                {d \in DayStrs : DailyNoteQualifies(d)}
        /\ \A i \in 1..Len(items') :
                /\ items'[i].createdNotesCount = 0
                /\ items'[i].createdFilesCount = 0]_vars

\* With the feature off the index holds notes and files of a day with a
\* qualifying daily note and of a day without one: only the first day is
\* listed, with counts of 0
C40_Witness ==
    /\ pc = "merged"
    /\ ~includeCreatedDays
    /\ createdOnDayIndex # NullIndex
    /\ Len(items) = 1
    /\ items[1].createdNotesCount = 0
    /\ items[1].createdFilesCount = 0
    /\ \E d1, d2 \in DayStrs :
        /\ d1 # d2
        /\ DailyNoteQualifies(d1) /\ items[1].dateStr = d1
        /\ Len(BucketNotes(d1)) > 1 /\ Len(BucketFiles(d1)) > 0
        /\ CandsOn(d2) = {} /\ Len(BucketFiles(d2)) > 0

----------------------------------------------------------------------------
(* Properties of the debounced recomputation *)

\* A call of scheduleListRecompute is made in this step
Requested == lastRequest' # lastRequest

\* computeList is started by the recompute timer in this step
TimerStartsComputeList ==
    /\ Len(computeCalls') = Len(computeCalls) + 1
    /\ computeCalls'[Len(computeCalls')] = "timer"

\* C33: at most one recompute timer is pending, and listComputeTimer holds its
\* handle; a request made while the list is hidden changes no timer; a
\* request made while the list is shown leaves one recompute timer pending,
\* a new one, due one window later; and the recompute timer starts
\* computeList one window after the latest request made while the list was
\* shown, once for all the requests that came before, no recompute timer
\* being left.
C33_RequestsCoalesced ==
    /\ [](pc = "timers" =>
            /\ Cardinality(ComputeTimeouts(timeouts)) <= 1
            /\ ComputeTimeouts(timeouts) = {} <=> listComputeTimer = NoTimer
            /\ \A t \in ComputeTimeouts(timeouts) :
                    /\ t.id = listComputeTimer
                    /\ t.at = lastRequest.visibleAt + LIST_RECOMPUTE_DEBOUNCE_MS)
    /\ [][(Requested /\ ~showList) =>
            /\ ComputeTimeouts(timeouts') = ComputeTimeouts(timeouts)
            /\ listComputeTimer' = listComputeTimer]_vars
    /\ [][(Requested /\ showList) =>
            /\ listComputeTimer' \notin {t.id : t \in timeouts}
            /\ ComputeTimeouts(timeouts') =
                    {Timeout(listComputeTimer', "listCompute",
                             now + LIST_RECOMPUTE_DEBOUNCE_MS)}]_vars
    /\ [][TimerStartsComputeList =>
            /\ lastRequest.burst >= 1
            /\ now = lastRequest.visibleAt + LIST_RECOMPUTE_DEBOUNCE_MS
            /\ ComputeTimeouts(timeouts') = {}
            /\ listComputeTimer' = NoTimer]_vars

\* Three requests came within one window, the last of them 400 ms after the
\* first; the timer has started computeList once, 750 ms after the last
C33_Witness ==
    /\ pc = "timers"
    /\ computeCalls = <<"timer">>
    /\ lastRequest.burst = 3
    /\ lastRequest.visibleAt = 2 * CALENDAR_REFRESH_DEBOUNCE_MS
    /\ now = lastRequest.visibleAt + LIST_RECOMPUTE_DEBOUNCE_MS
    /\ timeouts = {}

----------------------------------------------------------------------------
(* Properties of the metrics cache *)

\* A computation is reading a note whose mtime is the one it started with
ReadingUnchanged(id) ==
    /\ id \in 1..Len(promises)
    /\ promises[id].state = "reading"
    /\ fileMtime[promises[id].key] = promises[id].mtime

\* getNoteMetrics is called for this path in this step
CallsFor(key) == lastCall' # lastCall /\ lastCall'.key = key

\* C31: while a computation reads a note whose mtime has not changed, it is
\* the one computation that does, inFlight holds it, and every call for the
\* note gets its promise and starts no read.
C31_InFlightShared ==
    /\ [](pc = "metrics" =>
            \A i, j \in 1..Len(promises) :
                (/\ ReadingUnchanged(i)
                 /\ ReadingUnchanged(j)
                 /\ promises[i].key = promises[j].key) => i = j)
    /\ [](pc = "metrics" =>
            \A id \in 1..Len(promises) :
                ReadingUnchanged(id) =>
                    inFlight[promises[id].key] =
                        [mtime |-> promises[id].mtime, promise |-> id])
    /\ [][\A id \in 1..Len(promises) :
            (ReadingUnchanged(id) /\ CallsFor(promises[id].key)) =>
                /\ lastCall'.how = "joined"
                /\ lastCall'.promise = id
                /\ promises' = promises
                /\ cache' = cache]_vars

\* A call has joined the computation that reads a.md at its present mtime,
\* while an older computation for a.md is still reading
C31_Witness ==
    /\ pc = "metrics"
    /\ Len(promises) = 2
    /\ promises[1].key = "a.md" /\ promises[1].state = "reading"
    /\ promises[2].key = "a.md" /\ ReadingUnchanged(2)
    /\ promises[1].mtime < promises[2].mtime
    /\ lastCall.how = "joined"
    /\ lastCall.promise = 2

\* How many entries a cache holds for a key
CacheCount(c, key) ==
    IF CachePosition(c, key) = 0 THEN 0 ELSE c[CachePosition(c, key)].n

\* The keys that lose an entry in this step
Evicted == {k \in CacheKeys(cache) : CacheCount(cache', k) < CacheCount(cache, k)}

\* The path whose computed entry is stored in this step
StoredKeys ==
    {promises[id].key : id \in {i \in 1..Len(promises) :
                                    /\ promises[i].state = "reading"
                                    /\ promises'[i].state = "resolved"}}

\* The key used least recently among the keys other than these
LeastRecentlyUsed(order, used) ==
    LET others == SelectSeq(order, LAMBDA k : k \notin used)
    IN IF others = <<>> THEN {} ELSE {others[1]}

\* C32: the cache holds at most MAX_ENTRIES entries after every insertion,
\* and an entry that is evicted belongs to the key used least recently, a
\* hit and the storing of a computed entry both being a use of the key.
C32_BoundedLeastRecentlyUsed ==
    /\ [](pc = "metrics" => CacheSize(cache) <= MAX_ENTRIES)
    /\ [][Evicted \subseteq LeastRecentlyUsed(recency, StoredKeys)]_vars

\* The values of cache that are recorded under the mtime of the note
CachedFor(key, mtime) ==
    \E i \in 1..Len(cache) : cache[i].key = key /\ cache[i].mtime = mtime

\* A computation started for the note at this mtime has not returned
InFlightFor(key, mtime) ==
    \E id \in 1..Len(promises) :
        /\ promises[id].key = key
        /\ promises[id].mtime = mtime
        /\ promises[id].state # "returned"

\* C35: the value of an entry of the cache is recorded under the mtime of the
\* entry; a call is answered from the cache only when the entry bears the
\* mtime the note has at the call, it awaits only a computation started for
\* that mtime, and with neither at hand it starts a new read.
C35_OnlySameMtimeReused ==
    /\ [](pc = "metrics" =>
            /\ \A i \in 1..Len(cache) :
                    cache[i].key # "*" =>
                        /\ cache[i].value.mtime = cache[i].mtime
                        /\ cache[i].value.content >= cache[i].mtime
            /\ lastCall.how = "hit" => lastCall.value.mtime = lastCall.mtime
            /\ lastCall.how \in {"joined", "started"} =>
                    /\ promises[lastCall.promise].key = lastCall.key
                    /\ promises[lastCall.promise].mtime = lastCall.mtime)
    /\ [][lastCall' # lastCall =>
            LET key == lastCall'.key
                mtime == fileMtime[key]
            IN /\ lastCall'.mtime = mtime
               /\ lastCall'.how = "hit" <=> CachedFor(key, mtime)
               /\ lastCall'.how = "joined" => InFlightFor(key, mtime)
               /\ (~CachedFor(key, mtime) /\ ~InFlightFor(key, mtime)) =>
                    /\ lastCall'.how = "started"
                    /\ Len(promises') = Len(promises) + 1
                    /\ promises'[Len(promises')] =
                            Computation(key, mtime, "reading")]_vars

\* a.md was modified after its metrics were cached: the entry of the older
\* mtime is still in the cache, and the call has started a new read
C35_Witness ==
    /\ pc = "metrics"
    /\ lastCall.key = "a.md"
    /\ lastCall.how = "started"
    /\ lastCall.mtime = 2
    /\ CachedFor("a.md", 1)
    /\ promises = <<Computation("a.md", 2, "reading")>>

====
